---- MODULE Spec2Model ----
(***************************************************************************)
(* State-machine model of yourpm (CRBroughton/pkg-exploration): the        *)
(* container lifecycle reconciler (ensureContainerRunning), the prune      *)
(* service and the `prune containers` command, run against a container     *)
(* runtime reached through the DockerClient adapter; the content store     *)
(* (InstallBinary), the profile linker (Link), the symlink collector       *)
(* (CleanupOrphanedSymlinks) and the `switch` command, run against the     *)
(* files under ~/.yourpm.                                                  *)
(*                                                                         *)
(* Container names are sequences of characters, because the adapter's      *)
(* Exists and IsRunning search the output of `docker ps` with              *)
(* strings.Contains.                                                       *)
(***************************************************************************)
EXTENDS Integers, Sequences, FiniteSets

VARIABLES
    runtime,   \* the container runtime: name -> [exists, running, image]
    config,    \* the content of ~/.yourpm/config.toml
    ens,       \* one call of ensureContainerRunning
    prn,       \* one run of the `prune containers` command
    lastOk,    \* arguments of an Ensure that just returned nil, or NoCall
    store,     \* ~/.yourpm/store: directory name -> its files
    profile,   \* ~/.yourpm/profiles/default/bin: command name -> entry
    cache,     \* the downloaded file an install copies from
    execBuilt, \* whether ~/.yourpm/bin/container-exec exists
    fso,       \* one call of InstallBinary, Link or CleanupOrphanedSymlinks
    sw,        \* one run of the `switch` command
    exe,       \* one run of container-exec, or one call of ExecuteCommand
    dl,        \* one call of DownloadFile
    tmp,       \* the temporary files next to the cache files
    imgs,      \* the images the runtime holds
    lk         \* the calls of Link of two runs of the tool at once

\* the files under ~/.yourpm and the calls that work on them
\* the command wrappers, the downloads and the images of the runtime
xvars == <<exe, dl, tmp, imgs, lk>>

fsvars == <<store, profile, cache, execBuilt, fso, sw, xvars>>

vars == <<runtime, config, ens, prn, lastOk, store, profile, cache, execBuilt, fso, sw,
          exe, dl, tmp, imgs, lk>>

----------------------------------------------------------------------------
(* Names, images, configuration                                            *)

Prefix == <<"y", "o", "u", "r", "p", "m", "-">>

\* logical container names; "a" is a proper prefix of "a-b"
LogicalNames == {<<"a">>, <<"a", "-", "b">>, <<"b">>}

Images == {"x:1", "x:2"}

\* the operator keeps at most this many containers
MaxContainers == 2

NoImage == "none"

FullName(l) == Prefix \o l

Names == {FullName(l) : l \in LogicalNames}

Absent == [exists |-> FALSE, running |-> FALSE, image |-> NoImage]

ContainerStates ==
    {Absent} \cup [exists : {TRUE}, running : BOOLEAN, image : Images]

EmptyRuntime == [n \in Names |-> Absent]

NoContainers == [l \in {} |-> NoImage]

NoPackages == [n \in {} |-> <<>>]

\* a config file that LoadConfig rejects (missing, unparsable, no name)
NoConfig == [ok |-> FALSE, Packages |-> NoPackages, Containers |-> NoContainers]

ConfigFiles ==
    {NoConfig} \cup
    {[ok |-> TRUE, Packages |-> NoPackages, Containers |-> f] :
        f \in UNION {[D -> Images] : D \in SUBSET LogicalNames}}

\* a loader that hands out an empty config for a file it cannot read
LoadConfigOrEmpty(file) ==
    IF file.ok THEN file
    ELSE [ok |-> TRUE, Packages |-> NoPackages, Containers |-> NoContainers]

\* LoadConfig: (cfg, nil) for a valid file, (nil, err) otherwise
LoadConfig(file) == IF file.ok THEN file ELSE NoConfig

----------------------------------------------------------------------------
(* The adapter: DefaultDockerClient                                        *)

\* strings.Contains(s, sub)
Contains(s, sub) ==
    \E i \in 1..(Len(s) - Len(sub) + 1) : SubSeq(s, i, i + Len(sub) - 1) = sub

RECURSIVE JoinLines(_)
JoinLines(S) ==
    IF S = {} THEN <<>>
    ELSE LET n == CHOOSE x \in S : TRUE
         IN  n \o <<"\n">> \o JoinLines(S \ {n})

\* output of `docker ps [-a] --format {{.Names}}`
PsOutput(rt, all) ==
    JoinLines({n \in Names : rt[n].exists /\ (all \/ rt[n].running)})

\* IsRunning: false when the command fails, else a substring search
IsRunning(rt, name, ok) ==
    IF ~ok THEN FALSE ELSE Contains(PsOutput(rt, FALSE), name)

\* Exists: false when the command fails, else a substring search
Exists(rt, name, ok) ==
    IF ~ok THEN FALSE ELSE Contains(PsOutput(rt, TRUE), name)

\* docker inspect --format {{.Config.Image}} name
GetContainerImageOutcomes(rt, name) ==
    IF rt[name].exists THEN {"ok", "fail"} ELSE {"fail"}

\* docker run -d --name name image: "created" is a run that leaves the
\* container created but not started, and reports an error
CreateOutcomes(rt, name) ==
    IF rt[name].exists THEN {"fail"} ELSE {"ok", "created", "fail"}

CreateContainer(rt, name, image, out) ==
    CASE out = "ok" ->
            [rt EXCEPT ![name] = [exists |-> TRUE, running |-> TRUE, image |-> image]]
      [] out = "created" ->
            [rt EXCEPT ![name] = [exists |-> TRUE, running |-> FALSE, image |-> image]]
      [] OTHER -> rt

\* docker start name
StartOutcomes(rt, name) ==
    IF rt[name].exists THEN {"ok", "fail"} ELSE {"fail"}

Start(rt, name, out) ==
    IF out = "ok" THEN [rt EXCEPT ![name].running = TRUE] ELSE rt

\* docker rm -f name
RemoveOutcomes(rt, name) == {"ok", "fail"}

Remove(rt, name, out) ==
    IF out = "ok" THEN [rt EXCEPT ![name] = Absent] ELSE rt

\* docker ps -a --filter name=yourpm-: the runtime's filter is a substring match
ListContainers(rt) ==
    {n \in Names : rt[n].exists /\ Contains(n, Prefix)}

----------------------------------------------------------------------------
(* The files under ~/.yourpm: store, profile, cache                        *)

\* command names: the entries of the profile bin directory
Commands == {<<"b">>, <<"g">>}

\* the packages `install` is asked for; a package's binary has its name,
\* and a package may have the name of a container
PackageNames == {<<"b">>}

\* containers.toml: the commands of each container
ManifestCommands(l) == IF l = <<"b">> THEN << <<"b">>, <<"g">> >> ELSE << <<"g">> >>

Versions == {<<"1">>, <<"2">>}

Contents == {"c1", "c2"}

\* fmt.Sprintf("%s-%s", name, version)
StoreDirName(name, version) == name \o <<"-">> \o version

PackageDirs == {StoreDirName(n, v) : n \in PackageNames, v \in Versions}

ContainerDirs == {StoreDirName(l, v) : l \in LogicalNames, v \in Versions}

StoreDirs == PackageDirs \cup ContainerDirs

\* a file of the store: nothing, a regular file, or a symlink to
\* ~/.yourpm/bin/container-exec
NoFile == [kind |-> "none", exec |-> FALSE, content |-> ""]

ExecLink == [kind |-> "symlink", exec |-> FALSE, content |-> ""]

StoreEntries ==
    {NoFile, ExecLink} \cup
    [kind : {"file"}, exec : BOOLEAN, content : Contents \cup {""}]

\* a directory store/<name>-<version>: the files right under it and the
\* files under its bin/
EmptyDir ==
    [exists |-> FALSE, root |-> [c \in Commands |-> NoFile],
     bin |-> [c \in Commands |-> NoFile]]

EmptyStore == [d \in StoreDirs |-> EmptyDir]

\* the path a symlink holds: a file of a store directory (right under it or
\* under its bin/), a path outside the store that exists, one that does
\* not, or the link itself
NoTarget == [root |-> "none", dir |-> <<>>, bin |-> FALSE, file |-> <<>>]

\* filepath.Join(storePath, binary)
StoreTarget(dir, file) == [root |-> "store", dir |-> dir, bin |-> FALSE, file |-> file]

\* store/<dir>/bin/<file>, where InstallBinary puts a binary
BinTarget(dir, file) == [root |-> "store", dir |-> dir, bin |-> TRUE, file |-> file]

OtherTarget(r) == [NoTarget EXCEPT !.root = r]

OtherTargets == {OtherTarget(r) : r \in {"exists", "missing", "loop"}}

\* another entry of the profile bin directory
ProfileTarget(c) == [root |-> "profile", dir |-> <<>>, bin |-> FALSE, file |-> c]

Targets ==
    {StoreTarget(d, c) : d \in StoreDirs, c \in Commands}
    \cup {BinTarget(d, c) : d \in StoreDirs, c \in Commands}
    \cup OtherTargets
    \cup {ProfileTarget(c) : c \in Commands}

\* an entry of the profile bin directory
NoEntry == [kind |-> "none", target |-> NoTarget]

RegularFile == [kind |-> "file", target |-> NoTarget]

Directory == [kind |-> "dir", target |-> NoTarget]

Symlink(target) == [kind |-> "symlink", target |-> target]

ProfileEntries == {NoEntry, RegularFile, Directory} \cup {Symlink(t) : t \in Targets}

EmptyProfile == [exists |-> FALSE, entries |-> [c \in Commands |-> NoEntry]]

NoSource == "none"

EmptyCache == [d \in PackageDirs |-> NoSource]

\* strings.HasPrefix(s, prefix)
HasPrefix(s, prefix) ==
    Len(prefix) <= Len(s) /\ SubSeq(s, 1, Len(prefix)) = prefix

\* os.Stat of a path that holds `target`, following symlinks: "ok",
\* "notexist" (ENOENT) or "error" (any other error, here ELOOP)
Stat(target, st, exec) ==
    CASE target.root = "store" ->
            LET e == IF target.bin THEN st[target.dir].bin[target.file]
                     ELSE st[target.dir].root[target.file]
            IN  IF ~st[target.dir].exists \/ e.kind = "none" THEN "notexist"
                ELSE IF e.kind = "symlink" /\ ~exec THEN "notexist"
                ELSE "ok"
      [] target.root = "exists" -> "ok"
      [] target.root = "loop" -> "error"
      [] OTHER -> "notexist"

----------------------------------------------------------------------------
(* Store.InstallBinary                                                     *)

\* the first call of InstallBinary that fails, for a source that is there
\* and for one that is not
InstallOutcomes(source) ==
    IF source = NoSource THEN {"mkdir", "open"}
    ELSE {"ok", "mkdir", "open", "create", "copy", "chmod"}

\* the directory the binary is copied into
InstallBinaryDest(dir, name) == [dir |-> dir, bin |-> TRUE, file |-> name]

\* the binary right under the store path
InstallAtRoot(dir, name) == [dir |-> dir, bin |-> FALSE, file |-> name]

\* the file of the store at `dest`
FileAt(st, dest) ==
    IF dest.bin THEN st[dest.dir].bin[dest.file] ELSE st[dest.dir].root[dest.file]

WriteAt(st, dest, entry) ==
    IF dest.bin THEN [st EXCEPT ![dest.dir].exists = TRUE, ![dest.dir].bin[dest.file] = entry]
    ELSE [st EXCEPT ![dest.dir].exists = TRUE, ![dest.dir].root[dest.file] = entry]

\* os.Create: a new file is not executable, a file that is there is
\* truncated and keeps its mode
Created(old) ==
    [kind |-> "file", exec |-> old.kind = "file" /\ old.exec, content |-> ""]

\* MkdirAll, copyFile and Chmod for the binary at dest: the store after the
\* call, the path returned ("" with an error) and the writes made, in order
InstallInto(st, source, dir, dest, out) ==
    LET made    == [st EXCEPT ![dir].exists = TRUE]
        mkdir   == IF st[dir].exists THEN <<>> ELSE << <<"mkdir", dir>> >>
        created == WriteAt(made, dest, Created(FileAt(made, dest)))
        copied  == WriteAt(made, dest, [Created(FileAt(made, dest)) EXCEPT !.content = source])
        done    == WriteAt(made, dest, [kind |-> "file", exec |-> TRUE, content |-> source])
        Err(s, w) == [store |-> s, path |-> <<>>, ok |-> FALSE, writes |-> w]
    IN  CASE out = "mkdir"  -> Err(st, <<>>)
          [] out = "open"   -> Err(made, mkdir)
          [] out = "create" -> Err(made, mkdir)
          [] out = "copy"   -> Err(created, mkdir \o << <<"create", dest>> >>)
          [] out = "chmod"  -> Err(copied, mkdir \o << <<"create", dest>>, <<"copy", dest>> >>)
          [] OTHER          -> [store |-> done, path |-> dir, ok |-> TRUE,
                                writes |-> mkdir \o << <<"create", dest>>, <<"copy", dest>>,
                                                       <<"chmod", dest>> >>]

\* InstallBinary(name, version, downloadPath)
InstallBinary(st, source, name, version, out) ==
    InstallInto(st, source, StoreDirName(name, version),
                InstallBinaryDest(StoreDirName(name, version), name), out)

\* Store.Install(name, version, sourcePath, binaries) for a source that is
\* not an archive: the store path that is there is returned as it is,
\* otherwise the source is copied in as `name` right under the store path
Install(st, source, name, version, out) ==
    IF st[StoreDirName(name, version)].exists
    THEN [store |-> st, path |-> StoreDirName(name, version), ok |-> TRUE, writes |-> <<>>]
    ELSE InstallInto(st, source, StoreDirName(name, version),
                     InstallAtRoot(StoreDirName(name, version), name), out)

----------------------------------------------------------------------------
(* Store.Install of an archive (.tar.gz, .tgz)                             *)

\* pkgDef.Binaries.Names: the binaries a package exposes
DesiredBinaries(name) == << <<"b">>, <<"g">> >>

\* the base names of the files of the extracted tree
ArchiveTrees == SUBSET Commands

\* the first step of an archive install that the environment lets fail,
\* for a source that is there and for one that is not
ArchiveOutcomes(source) ==
    IF source = NoSource THEN {"extract"} ELSE {"ok", "extract", "mkdir", "move"}

\* the place in `binaries` of the first name the tree walk does not find,
\* 0 when every name is found
FirstMissing(tree, binaries) ==
    IF \A i \in DOMAIN binaries : binaries[i] \in tree THEN 0
    ELSE CHOOSE i \in DOMAIN binaries :
            /\ binaries[i] \notin tree
            /\ \A j \in 1..(i - 1) : binaries[j] \in tree

\* the store once the first k binaries were moved to storePath/name and
\* marked executable
Moved(st, source, dir, binaries, k) ==
    [st EXCEPT ![dir].exists = TRUE,
               ![dir].root = [c \in Commands |->
                                IF \E i \in 1..k : binaries[i] = c
                                THEN [kind |-> "file", exec |-> TRUE, content |-> source]
                                ELSE @[c]]]

\* a failed install keeps its partial store path
LeftActive(st, dir) == st

\* a partial install is not left active: the store path of a failed install
\* is not there afterwards
NotLeftActive(st, dir) == [st EXCEPT ![dir] = EmptyDir]

\* Store.Install(name, version, sourcePath, binaries) for an archive whose
\* extracted tree holds the files `tree`
InstallArchive(st, source, tree, name, version, binaries, out) ==
    LET dir == StoreDirName(name, version)
        m   == FirstMissing(tree, binaries)
        Err(s, f, k) == [store |-> s, path |-> <<>>, ok |-> FALSE, failure |-> f, moved |-> k]
    IN  IF st[dir].exists
        THEN [store |-> st, path |-> dir, ok |-> TRUE, failure |-> "", moved |-> 0]
        ELSE CASE out = "extract" -> Err(st, "extract", 0)
               [] out = "mkdir"   -> Err(st, "mkdir", 0)
               [] out = "move"    ->
                    IF m = 1 THEN Err(NotLeftActive(Moved(st, source, dir, binaries, 0), dir),
                                      "missing", 0)
                    ELSE Err(NotLeftActive(Moved(st, source, dir, binaries, 0), dir), "move", 0)
               [] m # 0           ->
                    Err(NotLeftActive(Moved(st, source, dir, binaries, m - 1), dir),
                        "missing", m - 1)
               [] OTHER           ->
                    [store |-> Moved(st, source, dir, binaries, Len(binaries)),
                     path |-> dir, ok |-> TRUE, failure |-> "", moved |-> Len(binaries)]

----------------------------------------------------------------------------
(* Switch: the store directory of a container                              *)

\* the first system call of the setup that fails, and the command it is for
SetupOutcomes(commands) ==
    {[fail |-> f, at |-> <<>>] : f \in {"none", "mkdir", "build"}}
    \cup {[fail |-> f, at |-> commands[i]] : f \in {"remove", "symlink"}, i \in DOMAIN commands}

SetupOk == [fail |-> "none", at |-> <<>>]

\* os.Remove(symlinkPath), its error ignored, then
\* os.Symlink(execPath, symlinkPath)
SetupOne(files, command, out) ==
    LET refused == out.fail = "remove" /\ out.at = command /\ files[command].kind # "none"
        removed == IF refused THEN files ELSE [files EXCEPT ![command] = NoFile]
    IN  IF refused \/ (out.fail = "symlink" /\ out.at = command)
        THEN [files |-> removed, ok |-> FALSE]
        ELSE [files |-> [removed EXCEPT ![command] = ExecLink], ok |-> TRUE]

RECURSIVE SetupLoop(_, _, _)
SetupLoop(files, commands, out) ==
    IF commands = <<>> THEN [files |-> files, ok |-> TRUE]
    ELSE LET one == SetupOne(files, Head(commands), out)
         IN  IF ~one.ok THEN one ELSE SetupLoop(one.files, Tail(commands), out)

\* MkdirAll(containerStorePath), buildContainerExec if the executor is not
\* there, and a symlink to the executor for each command
ContainerSetup(st, exec, dir, commands, out) ==
    LET made == [st EXCEPT ![dir].exists = TRUE]
        loop == SetupLoop(made[dir].root, commands, out)
    IN  IF out.fail = "mkdir" THEN [store |-> st, exec |-> exec, ok |-> FALSE]
        ELSE IF ~exec /\ out.fail = "build" THEN [store |-> made, exec |-> FALSE, ok |-> FALSE]
        ELSE [store |-> [made EXCEPT ![dir].root = loop.files], exec |-> TRUE, ok |-> loop.ok]

----------------------------------------------------------------------------
(* Profile.Link                                                            *)

\* a linker that does not remove the entry first
KeepEntry(entries, b, rmOk) == entries

\* a linker that removes a symlink and leaves a regular file
RemoveSymlinkOnly(entries, b, rmOk) ==
    IF entries[b].kind # "symlink" \/ ~rmOk THEN entries
    ELSE [entries EXCEPT ![b] = NoEntry]

\* os.Remove(target), its error ignored: nothing to remove, a directory
\* that is not empty, or a removal the system may refuse
RemoveEntry(entries, b, rmOk) ==
    IF entries[b].kind \in {"none", "dir"} \/ ~rmOk THEN entries
    ELSE [entries EXCEPT ![b] = NoEntry]

\* a symlink call that replaces the entry that is there
SymlinkOverwrites(entries, b, slOk) == slOk

\* os.Symlink(source, target): fails on an entry that is there (EEXIST)
SymlinkOk(entries, b, slOk) == entries[b].kind = "none" /\ slOk

\* the body of the loop of Link for one binary
LinkOne(entries, dir, b, rmOk, slOk) ==
    LET removed == RemoveEntry(entries, b, rmOk)
    IN  IF SymlinkOk(removed, b, slOk)
        THEN [entries |-> [removed EXCEPT ![b] = Symlink(StoreTarget(dir, b))], ok |-> TRUE]
        ELSE [entries |-> removed, ok |-> FALSE]

RECURSIVE LinkLoop(_, _, _, _, _)
LinkLoop(entries, dir, binaries, rm, sl) ==
    IF binaries = <<>> THEN [entries |-> entries, ok |-> TRUE, linked |-> {}]
    ELSE LET b    == Head(binaries)
             one  == LinkOne(entries, dir, b, rm[b], sl[b])
             rest == LinkLoop(one.entries, dir, Tail(binaries), rm, sl)
         IN  IF ~one.ok THEN [entries |-> one.entries, ok |-> FALSE, linked |-> {}]
             ELSE [rest EXCEPT !.linked = @ \cup {b}]

\* the outcomes of the system calls of one Link: MkdirAll, and for each
\* binary os.Remove and os.Symlink; the call ends at the first that fails
LinkOutcomes(binaries) ==
    LET named == {binaries[i] : i \in DOMAIN binaries}
        all   == [b \in named |-> TRUE]
    IN  {[mkdir |-> m, rm |-> all, sl |-> all] : m \in BOOLEAN}
        \cup {[mkdir |-> TRUE, rm |-> [all EXCEPT ![b] = FALSE], sl |-> all] : b \in named}
        \cup {[mkdir |-> TRUE, rm |-> all, sl |-> [all EXCEPT ![b] = FALSE]] : b \in named}

\* Link(storePath, binaries): the profile after the call, whether it
\* returned nil, and the binaries it linked
Link(pr, dir, binaries, out) ==
    IF ~out.mkdir THEN [profile |-> pr, ok |-> FALSE, linked |-> {}]
    ELSE LET loop == LinkLoop(pr.entries, dir, binaries, out.rm, out.sl)
         IN  [profile |-> [exists |-> TRUE, entries |-> loop.entries],
              ok |-> loop.ok, linked |-> loop.linked]

----------------------------------------------------------------------------
(* SymlinkManager.CleanupOrphanedSymlinks                                  *)

\* a collector that keeps every container link while the config declares a
\* container
ContainerActiveAny(storeDirName, containers) == DOMAIN containers # {}

\* for containerName := range cfg.Containers:
\*     strings.HasPrefix(storeDirName, containerName+"-")
ContainerActive(storeDirName, containers) ==
    \E containerName \in DOMAIN containers :
        HasPrefix(storeDirName, containerName \o <<"-">>)

\* targetFilePath is storePath/parts[0]/parts[len(parts)-1], the file with
\* the target's name right under the store directory; os.Readlink of it
\* gives the container-exec path
IsContainerLink(target, st) == st[target.dir].root[target.file].kind = "symlink"

\* os.Stat(symlinkPath) fails with an error that os.IsNotExist accepts
IsBroken(target, st, exec) == Stat(target, st, exec) = "notexist"

\* a collector that takes every entry for a symlink
NotSymlinkNever(entry) == FALSE

\* info, err := os.Lstat(symlinkPath);
\* if err != nil || info.Mode()&os.ModeSymlink == 0 { return false }
NotSymlink(entry) == entry.kind # "symlink"

\* shouldRemoveSymlink(entry, cfg, profileBin)
ShouldRemoveSymlink(entry, containers, st, exec) ==
    IF NotSymlink(entry) THEN FALSE
    ELSE IF IsBroken(entry.target, st, exec) THEN TRUE
    ELSE IF entry.target.root # "store" THEN FALSE
    ELSE IF ~IsContainerLink(entry.target, st) THEN FALSE
    ELSE IF ContainerActive(entry.target.dir, containers) THEN FALSE
    ELSE TRUE

\* os.Stat(symlinkPath) for the entry c: links to other entries of the
\* directory are followed, and a chain that does not end is an error (ELOOP)
RECURSIVE StatEntry(_, _, _, _, _)
StatEntry(entries, c, st, exec, hops) ==
    IF entries[c].kind = "none" THEN "notexist"
    ELSE IF entries[c].kind # "symlink" THEN "ok"
    ELSE IF entries[c].target.root # "profile" THEN Stat(entries[c].target, st, exec)
    ELSE IF hops = 0 THEN "error"
    ELSE StatEntry(entries, entries[c].target.file, st, exec, hops - 1)

\* shouldRemoveSymlink for the entry c of the directory as it is when the
\* loop comes to it: a link to another entry is removed when os.Stat finds
\* nothing at the end of the chain, and is otherwise not a store symlink
ShouldRemoveEntry(entries, c, containers, st, exec) ==
    IF entries[c].kind = "symlink" /\ entries[c].target.root = "profile"
    THEN StatEntry(entries, c, st, exec, Cardinality(Commands)) = "notexist"
    ELSE ShouldRemoveSymlink(entries[c], containers, st, exec)

\* the config CleanupOrphanedSymlinks works with
CleanupConfig(file) ==
    IF LoadConfig(file).ok THEN LoadConfig(file).Containers ELSE NoContainers

\* the outcomes of the system calls of one pass: os.ReadDir, and os.Remove
\* for each entry
CleanupOutcomes == [readdir : BOOLEAN, rm : [Commands -> BOOLEAN]]

\* os.ReadDir returns the entries sorted by filename
EntryOrder == << <<"b">>, <<"g">> >>

EntryBefore(d, c) ==
    \E i, j \in DOMAIN EntryOrder : i < j /\ EntryOrder[i] = d /\ EntryOrder[j] = c

\* a sweep that ends at the first removal that fails
SweptUntilFailure(c, asked, rm) ==
    c \in asked /\ rm[c] /\ \A d \in asked : EntryBefore(d, c) => rm[d]

\* the entry is removed when the predicate asks for it and os.Remove
\* succeeds; a removal that fails is logged and the loop goes on
Swept(c, asked, rm) == c \in asked /\ rm[c]

\* the loop over the entries from the i-th on: the directory after it and
\* the entries the predicate asked to remove
RECURSIVE SweepFrom(_, _, _, _, _, _, _)
SweepFrom(entries, asked, i, containers, st, exec, rm) ==
    IF i > Len(EntryOrder) THEN [entries |-> entries, asked |-> asked]
    ELSE LET c    == EntryOrder[i]
             now  == IF ShouldRemoveEntry(entries, c, containers, st, exec)
                     THEN asked \cup {c} ELSE asked
             left == IF Swept(c, now, rm) THEN [entries EXCEPT ![c] = NoEntry]
                     ELSE entries
         IN  SweepFrom(left, now, i + 1, containers, st, exec, rm)

\* CleanupOrphanedSymlinks(): the profile after the pass, the entries it
\* asked to remove, and whether it returned nil
CleanupOrphanedSymlinks(pr, st, file, exec, out) ==
    IF ~pr.exists THEN [profile |-> pr, asked |-> {}, ok |-> TRUE]
    ELSE IF ~out.readdir THEN [profile |-> pr, asked |-> {}, ok |-> FALSE]
    ELSE LET sweep == SweepFrom(pr.entries, {}, 1, CleanupConfig(file), st, exec, out.rm)
         IN  [profile |-> [pr EXCEPT !.entries = sweep.entries],
              asked |-> sweep.asked, ok |-> TRUE]

----------------------------------------------------------------------------
(* cleanupOrphanedSymlinks of main.go, the sweep written with a goto       *)

\* a sweep that never jumps to keepSymlink
LegacyActiveNever(storeDirName, containers) == FALSE

\* for containerName := range cfg.Containers {
\*     if strings.HasPrefix(storeDirName, containerName+"-") { goto keepSymlink } }
LegacyActive(storeDirName, containers) ==
    \E containerName \in DOMAIN containers :
        HasPrefix(storeDirName, containerName \o <<"-">>)

\* shouldRemove when the loop comes to the `if shouldRemove`, FALSE when it
\* does not come to it (continue, no symlink, goto keepSymlink)
LegacyShouldRemove(entries, c, containers, st, exec) ==
    IF entries[c].kind # "symlink" THEN FALSE
    ELSE IF StatEntry(entries, c, st, exec, Cardinality(Commands)) = "notexist" THEN TRUE
    ELSE IF entries[c].target.root = "store"
    THEN IF st[entries[c].target.dir].root[entries[c].target.file].kind = "symlink"
         THEN IF LegacyActive(entries[c].target.dir, containers) THEN FALSE
              ELSE TRUE
         ELSE FALSE
    ELSE FALSE

\* the loop over the entries from the i-th on
RECURSIVE LegacySweepFrom(_, _, _, _, _, _, _)
LegacySweepFrom(entries, asked, i, containers, st, exec, rm) ==
    IF i > Len(EntryOrder) THEN [entries |-> entries, asked |-> asked]
    ELSE LET c    == EntryOrder[i]
             ask  == LegacyShouldRemove(entries, c, containers, st, exec)
             left == IF ask /\ rm[c] THEN [entries EXCEPT ![c] = NoEntry] ELSE entries
         IN  LegacySweepFrom(left, IF ask THEN asked \cup {c} ELSE asked, i + 1,
                             containers, st, exec, rm)

\* cleanupOrphanedSymlinks(): the profile after the pass, the entries it
\* asked to remove, and whether it returned nil
LegacyCleanup(pr, st, file, exec, out) ==
    IF ~pr.exists THEN [profile |-> pr, asked |-> {}, ok |-> TRUE]
    ELSE IF ~out.readdir THEN [profile |-> pr, asked |-> {}, ok |-> FALSE]
    ELSE LET containers == IF LoadConfig(file).ok THEN LoadConfig(file).Containers
                           ELSE NoContainers
             sweep == LegacySweepFrom(pr.entries, {}, 1, containers, st, exec, out.rm)
         IN  [profile |-> [pr EXCEPT !.entries = sweep.entries],
              asked |-> sweep.asked, ok |-> TRUE]

----------------------------------------------------------------------------
(* ensureContainerRunning                                                  *)

\* one adapter call as Ensure issued it, with whether it succeeded
Call(op, name, image, ok) == <<op, name, image, ok>>

EnsIdle ==
    [pc |-> "idle", name |-> <<>>, image |-> NoImage, cur |-> NoImage,
     calls |-> <<>>, result |-> "none", failed |-> FALSE, again |-> FALSE,
     pre |-> EmptyRuntime]

PrnIdle ==
    [pc |-> "idle", aggressive |-> FALSE, cfg |-> NoConfig, mode |-> "none",
     listOk |-> FALSE, listed |-> {}, todo |-> {}, kept |-> {},
     removes |-> <<>>, failed |-> {}, queryFailed |-> FALSE,
     result |-> "none", gcCalls |-> 0, gcCfg |-> NoContainers,
     pre |-> EmptyRuntime, imgCalls |-> <<>>, preImgs |-> {}]

SwIdle ==
    [pc |-> "idle", cfg |-> NoConfig, pkgs |-> {}, ctrs |-> {}, item |-> <<>>,
     order |-> <<>>, applied |-> {}, failedAt |-> 0, result |-> "none",
     swallowed |-> FALSE,
     preStore |-> EmptyStore, preProfile |-> EmptyProfile, preRuntime |-> EmptyRuntime]

ExeIdle ==
    [pc |-> "idle", op |-> "none", cmd |-> <<>>, name |-> <<>>, image |-> NoImage,
     ensured |-> "none", execIssued |-> FALSE, execImage |-> NoImage,
     execCode |-> "none", status |-> "none"]

DlIdle ==
    [pc |-> "idle", repo |-> "none", dest |-> <<>>, requested |-> FALSE,
     result |-> "none", failure |-> "none", preCache |-> NoSource,
     preTmp |-> NoSource]

\* the two runs of the tool, and the call of Link each is in
Linkers == {1, 2}

LkIdle ==
    [p \in Linkers |-> [pc |-> "idle", dir |-> <<>>, result |-> "none",
                        found |-> FALSE, envFailed |-> FALSE]]

NoCall == <<>>

Idle ==
    /\ ens.pc = "idle" /\ prn.pc = "idle" /\ sw.pc = "idle"
    /\ exe.pc = "idle" /\ dl.pc = "idle"
    /\ \A p \in Linkers : lk[p].pc = "idle"

\* the call itself: containerName and image are the caller's
EnsureCall(name, image) ==
    /\ Idle
    /\ ens' = [EnsIdle EXCEPT !.pc = "exists", !.name = name, !.image = image,
                              !.again = (lastOk = <<name, image>>),
                              !.pre = runtime]
    /\ lastOk' = NoCall
    /\ UNCHANGED <<runtime, config, prn, fsvars>>

\* if dockerClient.Exists(containerName)
EnsureExists ==
    /\ ens.pc = "exists"
    /\ \E ok \in BOOLEAN :
          ens' = [ens EXCEPT
                    !.pc = IF Exists(runtime, ens.name, ok) THEN "image" ELSE "create",
                    !.calls = Append(@, Call("Exists", ens.name, NoImage, ok)),
                    !.failed = @ \/ ~ok]
    /\ UNCHANGED <<runtime, config, prn, lastOk, fsvars>>

\* a reconciler that never compares the images
AfterImageIgnored(cur, image) == "isrunning"

\* the branch taken on the image read
AfterImage(cur, image) == IF cur # image THEN "remove" ELSE "isrunning"

\* currentImage, err := dockerClient.GetContainerImage(containerName)
EnsureGetImage ==
    /\ ens.pc = "image"
    /\ \E out \in GetContainerImageOutcomes(runtime, ens.name) :
          ens' = IF out = "ok"
                 THEN [ens EXCEPT
                         !.pc = AfterImage(runtime[ens.name].image, ens.image),
                         !.cur = runtime[ens.name].image,
                         !.calls = Append(@, Call("GetContainerImage", ens.name, NoImage, TRUE))]
                 ELSE [ens EXCEPT
                         !.pc = "done", !.result = "err", !.failed = TRUE,
                         !.calls = Append(@, Call("GetContainerImage", ens.name, NoImage, FALSE))]
    /\ UNCHANGED <<runtime, config, prn, lastOk, fsvars>>

\* a reconciler that asks again for a removal that failed
AfterRemoveRetry(out) == IF out = "ok" THEN "create" ELSE "remove"

\* the step after dockerClient.Remove returned
AfterRemove(out) == IF out = "ok" THEN "create" ELSE "done"

\* if err := dockerClient.Remove(containerName)
EnsureRemove ==
    /\ ens.pc = "remove"
    /\ \E out \in RemoveOutcomes(runtime, ens.name) :
          /\ runtime' = Remove(runtime, ens.name, out)
          /\ ens' = [ens EXCEPT
                       !.pc = AfterRemove(out),
                       !.result = IF out = "ok" THEN @ ELSE "err",
                       !.failed = @ \/ out # "ok",
                       !.calls = Append(@, Call("Remove", ens.name, NoImage, out = "ok"))]
    /\ UNCHANGED <<config, prn, lastOk, fsvars>>

\* createContainerWithClient
EnsureCreate ==
    /\ ens.pc = "create"
    /\ \E out \in CreateOutcomes(runtime, ens.name) :
          /\ runtime' = CreateContainer(runtime, ens.name, ens.image, out)
          /\ ens' = [ens EXCEPT
                       !.pc = "done",
                       !.result = IF out = "ok" THEN "nil" ELSE "err",
                       !.failed = @ \/ out # "ok",
                       !.calls = Append(@, Call("Create", ens.name, ens.image, out = "ok"))]
    /\ UNCHANGED <<config, prn, lastOk, fsvars>>

\* if !dockerClient.IsRunning(containerName)
EnsureIsRunning ==
    /\ ens.pc = "isrunning"
    /\ \E ok \in BOOLEAN :
          ens' = IF IsRunning(runtime, ens.name, ok)
                 THEN [ens EXCEPT
                         !.pc = "done", !.result = "nil", !.failed = @ \/ ~ok,
                         !.calls = Append(@, Call("IsRunning", ens.name, NoImage, ok))]
                 ELSE [ens EXCEPT
                         !.pc = "start", !.failed = @ \/ ~ok,
                         !.calls = Append(@, Call("IsRunning", ens.name, NoImage, ok))]
    /\ UNCHANGED <<runtime, config, prn, lastOk, fsvars>>

\* return dockerClient.Start(containerName)
EnsureStart ==
    /\ ens.pc = "start"
    /\ \E out \in StartOutcomes(runtime, ens.name) :
          /\ runtime' = Start(runtime, ens.name, out)
          /\ ens' = [ens EXCEPT
                       !.pc = "done",
                       !.result = IF out = "ok" THEN "nil" ELSE "err",
                       !.failed = @ \/ out # "ok",
                       !.calls = Append(@, Call("Start", ens.name, NoImage, out = "ok"))]
    /\ UNCHANGED <<config, prn, lastOk, fsvars>>

\* the caller takes the result
EnsureReturn ==
    /\ ens.pc = "done"
    /\ lastOk' = IF ens.result = "nil" THEN <<ens.name, ens.image>> ELSE NoCall
    /\ ens' = EnsIdle
    /\ UNCHANGED <<runtime, config, prn, fsvars>>

Ensure ==
    \/ \E n \in Names, i \in Images : EnsureCall(n, i)
    \/ EnsureExists
    \/ EnsureGetImage
    \/ EnsureRemove
    \/ EnsureCreate
    \/ EnsureIsRunning
    \/ EnsureStart
    \/ EnsureReturn

----------------------------------------------------------------------------
(* PruneService and the `prune containers` command                         *)

\* configContainers: the namespaced names of the config's containers
ConfigContainers(cfg) ==
    IF cfg.ok THEN {FullName(l) : l \in DOMAIN cfg.Containers} ELSE {}

\* a command that forgets to test --all once a config is loaded
PruneModeConfigFirst(cfg, aggressive) ==
    IF cfg.ok THEN "selective"
    ELSE IF aggressive THEN "all"
    ELSE "none"

\* the branch the command takes
PruneMode(cfg, aggressive) ==
    IF cfg.ok /\ ~aggressive THEN "selective"
    ELSE IF aggressive THEN "all"
    ELSE "none"

\* a command that exits when the service reports an error
AfterServiceFatal(result) == IF result = "err" THEN "done" ELSE "gc"

\* the command goes on to the symlink cleanup whatever the service returned
AfterService(result) == "gc"

\* a loop that stops at the first Remove that fails
RemainingUntilFailure(todo, c, out) == IF out = "ok" THEN todo \ {c} ELSE {}

\* the loop goes on to the next container whatever Remove returned
Remaining(todo, c, out) == todo \ {c}

\* shouldKeep of PruneContainers
ShouldKeep(aggressive, configContainers, name, running) ==
    ~aggressive /\ name \in configContainers /\ running

\* PruneContainers(args): load the config, read --all, pick the branch
PruneContainersCmd(aggressive) ==
    /\ Idle
    /\ LET cfg  == LoadConfig(config)
           mode == PruneMode(cfg, aggressive)
       IN  prn' = [PrnIdle EXCEPT
                     !.pc = IF mode = "none" THEN AfterService("none") ELSE "list",
                     !.aggressive = aggressive, !.cfg = cfg, !.mode = mode,
                     !.pre = runtime]
    /\ lastOk' = NoCall
    /\ UNCHANGED <<runtime, config, ens, fsvars>>

\* containers, err := p.dockerClient.ListContainers(filters)
PruneList ==
    /\ prn.pc = "list"
    /\ \E ok \in BOOLEAN :
          prn' = IF ~ok
                 THEN [prn EXCEPT !.pc = AfterService("err"), !.result = "err"]
                 ELSE IF ListContainers(runtime) = {}
                 THEN [prn EXCEPT !.pc = AfterService("nil"), !.result = "nil",
                                  !.listOk = TRUE]
                 ELSE [prn EXCEPT !.pc = "loop", !.listOk = TRUE,
                                  !.listed = ListContainers(runtime),
                                  !.todo = ListContainers(runtime)]
    /\ UNCHANGED <<runtime, config, ens, lastOk, fsvars>>

\* one iteration of the loop of PruneContainers
PruneContainersStep ==
    /\ prn.pc = "loop"
    /\ prn.mode = "selective"
    /\ \E c \in prn.todo, ok \in BOOLEAN : \E out \in RemoveOutcomes(runtime, c) :
          LET asked == c \in ConfigContainers(prn.cfg)
              keep == ShouldKeep(FALSE, ConfigContainers(prn.cfg), c,
                                 IsRunning(runtime, c, ok))
              todo == Remaining(prn.todo, c, IF keep THEN "ok" ELSE out)
          IN  /\ runtime' = IF keep THEN runtime ELSE Remove(runtime, c, out)
              /\ prn' = [prn EXCEPT
                           !.todo = todo,
                           !.kept = IF keep THEN @ \cup {c} ELSE @,
                           !.queryFailed = @ \/ (asked /\ ~ok),
                           !.removes = IF keep THEN @ ELSE Append(@, c),
                           !.failed = IF ~keep /\ out # "ok" THEN @ \cup {c} ELSE @,
                           !.pc = IF todo = {} THEN AfterService("nil") ELSE @,
                           !.result = IF todo = {} THEN "nil" ELSE @]
    /\ UNCHANGED <<config, ens, lastOk, fsvars>>

\* one iteration of the loop of PruneAllContainers
PruneAllContainersStep ==
    /\ prn.pc = "loop"
    /\ prn.mode = "all"
    /\ \E c \in prn.todo : \E out \in RemoveOutcomes(runtime, c) :
          LET todo == Remaining(prn.todo, c, out)
          IN  /\ runtime' = Remove(runtime, c, out)
              /\ prn' = [prn EXCEPT
                           !.todo = todo,
                           !.removes = Append(@, c),
                           !.failed = IF out # "ok" THEN @ \cup {c} ELSE @,
                           !.pc = IF todo = {} THEN AfterService("nil") ELSE @,
                           !.result = IF todo = {} THEN "nil" ELSE @]
    /\ UNCHANGED <<config, ens, lastOk, fsvars>>

\* symlinkManager.CleanupOrphanedSymlinks(): the pass over the profile and
\* the config it loads; it touches neither the runtime nor the config file
PruneCleanup ==
    /\ prn.pc = "gc"
    /\ prn' = [prn EXCEPT !.pc = "done", !.gcCalls = @ + 1,
                          !.gcCfg = CleanupConfig(config)]
    /\ \E out \in CleanupOutcomes :
          profile' = CleanupOrphanedSymlinks(profile, store, config, execBuilt, out).profile
    /\ UNCHANGED <<runtime, config, ens, lastOk, store, cache, execBuilt, fso, sw, xvars>>

PruneReturn ==
    /\ prn.pc = "done"
    /\ prn' = PrnIdle
    /\ UNCHANGED <<runtime, config, ens, lastOk, fsvars>>

Prune ==
    \/ \E aggressive \in BOOLEAN : PruneContainersCmd(aggressive)
    \/ PruneList
    \/ PruneContainersStep
    \/ PruneAllContainersStep
    \/ PruneCleanup
    \/ PruneReturn

----------------------------------------------------------------------------
(* The runtime and the config file change between runs of the program: the *)
(* operator runs, stops, starts and removes containers with the same       *)
(* docker commands the adapter issues, and writes the config file.         *)

OperatorRun(n, i) ==
    /\ Idle
    /\ ~runtime[n].exists
    /\ Cardinality({m \in Names : runtime[m].exists}) < MaxContainers
    /\ \E out \in {"ok", "created"} : runtime' = CreateContainer(runtime, n, i, out)
    /\ lastOk' = NoCall
    /\ UNCHANGED <<config, ens, prn, fsvars>>

OperatorStop(n) ==
    /\ Idle
    /\ runtime[n].exists /\ runtime[n].running
    /\ runtime' = [runtime EXCEPT ![n].running = FALSE]
    /\ lastOk' = NoCall
    /\ UNCHANGED <<config, ens, prn, fsvars>>

OperatorStart(n) ==
    /\ Idle
    /\ runtime[n].exists /\ ~runtime[n].running
    /\ runtime' = Start(runtime, n, "ok")
    /\ lastOk' = NoCall
    /\ UNCHANGED <<config, ens, prn, fsvars>>

OperatorRemove(n) ==
    /\ Idle
    /\ runtime[n].exists
    /\ runtime' = Remove(runtime, n, "ok")
    /\ lastOk' = NoCall
    /\ UNCHANGED <<config, ens, prn, fsvars>>

WriteConfig(c) ==
    /\ Idle
    /\ c # config
    /\ config' = c
    /\ UNCHANGED <<runtime, ens, prn, lastOk, fsvars>>

Operator ==
    \/ \E n \in Names, i \in Images : OperatorRun(n, i)
    \/ \E n \in Names : OperatorStop(n)
    \/ \E n \in Names : OperatorStart(n)
    \/ \E n \in Names : OperatorRemove(n)
    \/ \E c \in ConfigFiles : WriteConfig(c)

----------------------------------------------------------------------------
(* Calls of the store, the linker and the collector, one at a time, and    *)
(* what happens to the files between them                                  *)

FsoNone ==
    [op |-> "none", dir |-> <<>>, name |-> <<>>, binaries |-> <<>>,
     ok |-> FALSE, writes |-> <<>>, linked |-> {}, asked |-> {}, refused |-> {},
     envFailed |-> FALSE, again |-> FALSE, installed |-> <<>>,
     failure |-> "", tree |-> {}, moved |-> 0,
     existed |-> FALSE, preProfile |-> EmptyProfile, first |-> EmptyProfile,
     owner |-> [c \in Commands |-> <<>>]]

\* what the record of the last call keeps for the next one: for each command
\* the store path of the last Link that linked it
Carry == [FsoNone EXCEPT !.owner = fso.owner]

\* the lists of binaries Link is called with
BinaryLists == {<<c>> : c \in Commands} \cup {<< <<"b">>, <<"g">> >>}

\* the cache file of a package: cache/<name>-<version>-<filename>
CachePath(name, version) == StoreDirName(name, version)

\* st.InstallBinary(name, version, cachePath)
CallInstallBinary(name, version, src) ==
    /\ Idle
    /\ \E out \in InstallOutcomes(cache[src]) :
          LET r == InstallBinary(store, cache[src], name, version, out)
          IN  /\ store' = r.store
              /\ fso' = [Carry EXCEPT
                           !.op = "InstallBinary",
                           !.dir = StoreDirName(name, version), !.name = name,
                           !.binaries = <<src>>,
                           !.ok = r.ok, !.writes = r.writes,
                           !.envFailed = out # "ok",
                           !.again = /\ fso.op = "InstallBinary" /\ fso.ok
                                     /\ fso.dir = StoreDirName(name, version)
                                     /\ fso.binaries = <<src>>,
                           !.existed = store[StoreDirName(name, version)].exists]
    /\ UNCHANGED <<runtime, config, ens, prn, lastOk, sw, profile, cache, execBuilt, xvars>>

\* prof.Link(storePath, binaries)
CallLink(dir, binaries) ==
    /\ Idle
    /\ \E out \in LinkOutcomes(binaries) :
          LET r == Link(profile, dir, binaries, out)
          IN  /\ profile' = r.profile
              /\ fso' = [Carry EXCEPT
                           !.op = "Link", !.dir = dir, !.binaries = binaries,
                           !.owner = [c \in Commands |->
                                        IF c \in r.linked THEN dir ELSE @[c]],
                           !.first = IF fso.op = "Link" /\ fso.ok /\ fso.dir = dir
                                        /\ fso.binaries = binaries
                                     THEN fso.first ELSE profile,
                           !.ok = r.ok, !.linked = r.linked,
                           !.envFailed = \/ ~out.mkdir
                                         \/ \E i \in DOMAIN binaries :
                                               ~out.rm[binaries[i]] \/ ~out.sl[binaries[i]],
                           !.again = /\ fso.op = "Link" /\ fso.ok
                                     /\ fso.dir = dir /\ fso.binaries = binaries,
                           !.installed = IF fso.op = "InstallBinary" /\ fso.ok
                                         THEN fso.dir ELSE <<>>,
                           !.preProfile = profile]
    /\ UNCHANGED <<runtime, config, ens, prn, lastOk, sw, store, cache, execBuilt, xvars>>

\* the download, and whoever clears the cache
WriteCache(src, content) ==
    /\ Idle
    /\ cache[src] # content
    /\ cache' = [cache EXCEPT ![src] = content]
    /\ fso' = Carry
    /\ UNCHANGED <<runtime, config, ens, prn, lastOk, sw, store, profile, execBuilt, xvars>>

\* what a user can put in the profile bin directory by hand
ManualEntries ==
    {NoEntry, RegularFile, Directory} \cup
    {Symlink(t) : t \in {t \in OtherTargets : t.root \in {"exists", "missing"}}}

EditProfile(c, entry) ==
    /\ Idle
    /\ profile.entries[c] # entry
    /\ profile' = [exists |-> TRUE, entries |-> [profile.entries EXCEPT ![c] = entry]]
    /\ fso' = [Carry EXCEPT !.owner[c] = <<>>]
    /\ UNCHANGED <<runtime, config, ens, prn, lastOk, sw, store, cache, execBuilt, xvars>>

\* symlinkManager.CleanupOrphanedSymlinks()
CallCleanup ==
    /\ Idle
    /\ \E out \in CleanupOutcomes :
          LET r == CleanupOrphanedSymlinks(profile, store, config, execBuilt, out)
          IN  /\ profile' = r.profile
              /\ fso' = [Carry EXCEPT
                           !.op = "Cleanup", !.ok = r.ok, !.asked = r.asked,
                           !.refused = {c \in r.asked : ~out.rm[c]},
                           !.envFailed = ~out.readdir \/ \E c \in r.asked : ~out.rm[c],
                           !.again = fso.op = "Cleanup" /\ fso.ok /\ ~fso.envFailed,
                           !.preProfile = profile]
    /\ UNCHANGED <<runtime, config, ens, prn, lastOk, sw, store, cache, execBuilt, xvars>>

\* cleanupOrphanedSymlinks() of main.go
CallLegacyCleanup ==
    /\ Idle
    /\ \E out \in CleanupOutcomes :
          LET r == LegacyCleanup(profile, store, config, execBuilt, out)
          IN  /\ profile' = r.profile
              /\ fso' = [Carry EXCEPT
                           !.op = "LegacyCleanup", !.ok = r.ok, !.asked = r.asked,
                           !.refused = {c \in r.asked : ~out.rm[c]},
                           !.envFailed = ~out.readdir \/ \E c \in r.asked : ~out.rm[c],
                           !.preProfile = profile]
    /\ UNCHANGED <<runtime, config, ens, prn, lastOk, sw, store, cache, execBuilt, xvars>>

\* cmdInstall, after InstallBinary returned storePath:
\* prof.Link(storePath, []string{name})
LinkInstalled ==
    /\ fso.op = "InstallBinary"
    /\ fso.ok
    /\ CallLink(fso.dir, <<fso.name>>)

\* st.Install(name, version, cachePath, pkgDef.Binaries.Names) with an
\* archive in the cache
CallInstallArchive(name, version, src) ==
    /\ Idle
    /\ \E tree \in ArchiveTrees :
       \E out \in ArchiveOutcomes(cache[src]) :
          LET r == InstallArchive(store, cache[src], tree, name, version,
                                  DesiredBinaries(name), out)
          IN  /\ store' = r.store
              /\ fso' = [Carry EXCEPT
                           !.op = "InstallArchive",
                           !.dir = StoreDirName(name, version), !.name = name,
                           !.binaries = DesiredBinaries(name),
                           !.ok = r.ok, !.failure = r.failure,
                           !.tree = tree, !.moved = r.moved,
                           !.envFailed = r.failure \in {"extract", "mkdir", "move"},
                           !.again = /\ fso.op = "InstallArchive"
                                     /\ fso.failure = "missing"
                                     /\ fso.dir = StoreDirName(name, version),
                           !.existed = store[StoreDirName(name, version)].exists]
    /\ UNCHANGED <<runtime, config, ens, prn, lastOk, sw, profile, cache, execBuilt, xvars>>

\* installs of archives, and the downloads that fill the cache
ArchiveNext ==
    \/ \E n \in PackageNames, v \in Versions : CallInstallArchive(n, v, CachePath(n, v))
    \/ \E src \in PackageDirs, c \in Contents \cup {NoSource} : WriteCache(src, c)

\* `install`: the store and the link of what was installed
StoreNext ==
    \/ \E n \in PackageNames, v \in Versions : CallInstallBinary(n, v, CachePath(n, v))
    \/ LinkInstalled
    \/ \E src \in PackageDirs, c \in Contents \cup {NoSource} : WriteCache(src, c)

\* the linker and a profile edited by hand
LinkNext ==
    \/ \E d \in PackageDirs, bs \in BinaryLists : CallLink(d, bs)
    \/ \E c \in Commands, e \in ManualEntries : EditProfile(c, e)

----------------------------------------------------------------------------
(* The `switch` command                                                    *)

\* containerCfg.Version of an image reference `repository:version`
VersionOf(image) == IF image = "x:1" THEN <<"1">> ELSE <<"2">>

\* the config files `switch` is given: package b at version 1 or no
\* package, container a on one of the images or no container
SwitchConfigs ==
    {NoConfig} \cup
    {[ok |-> TRUE, Packages |-> p, Containers |-> c] :
        p \in {NoPackages, [n \in {<<"b">>} |-> <<"1">>]},
        c \in {NoContainers} \cup {[l \in {<<"a">>} |-> i] : i \in Images}}

\* the outcomes of the adapter calls of ensureContainerVersion
VersionOutcomes == [exists : BOOLEAN, image : {"ok", "fail"}, remove : {"ok", "fail"}]

\* ensureContainerVersion(dockerClient, containerName, containerCfg, _): the
\* runtime after the call, whether it returned nil, and whether it ignored
\* an error of GetContainerImage
EnsureContainerVersion(rt, name, desiredImage, out) ==
    IF ~Exists(rt, name, out.exists)
    THEN [runtime |-> rt, ok |-> TRUE, swallowed |-> FALSE]
    ELSE IF out.image \notin GetContainerImageOutcomes(rt, name) \/ out.image = "fail"
    THEN [runtime |-> rt, ok |-> TRUE, swallowed |-> TRUE]
    ELSE IF rt[name].image # desiredImage
    THEN [runtime |-> Remove(rt, name, out.remove), ok |-> out.remove = "ok",
          swallowed |-> FALSE]
    ELSE [runtime |-> rt, ok |-> TRUE, swallowed |-> FALSE]

\* ensureDockerImage(dockerClient, image): the image is there, or it is
\* pulled, or the pull fails
EnsureDockerImage(out) == out # "fail"

\* where the pass goes after the packages that are left, and after the
\* containers that are left
AfterPackages(pkgs, ctrs) ==
    IF pkgs # {} THEN "packages" ELSE IF ctrs # {} THEN "manifest" ELSE "done"

AfterContainers(ctrs) == IF ctrs # {} THEN "containers" ELSE "done"

\* log.Fatalf ends the process; the last line of Switch reports success
Advance(s, failed, next) ==
    [s EXCEPT !.pc = IF failed THEN "done" ELSE next,
              !.result = IF failed THEN "fatal"
                         ELSE IF next = "done" THEN "ok" ELSE @,
              !.failedAt = IF failed THEN Len(s.order) ELSE @]

\* Switch(args) up to the loop over cfg.Packages: LoadManifest, LoadConfig
\* and, with a config path given, copyFile to the default location
SwitchCall(custom, file) ==
    /\ Idle
    /\ \E mf \in BOOLEAN, cp \in BOOLEAN :
          LET cfg    == LoadConfig(IF custom THEN file ELSE config)
              failed == ~mf \/ ~cfg.ok \/ (custom /\ ~cp)
              s0     == [SwIdle EXCEPT
                            !.cfg = IF failed THEN NoConfig ELSE cfg,
                            !.pkgs = IF failed THEN {} ELSE DOMAIN cfg.Packages,
                            !.ctrs = IF failed THEN {} ELSE DOMAIN cfg.Containers,
                            !.preStore = store, !.preProfile = profile,
                            !.preRuntime = runtime]
          IN  /\ sw' = Advance(s0, failed, AfterPackages(s0.pkgs, s0.ctrs))
              /\ config' = IF custom /\ ~failed THEN file ELSE config
    /\ UNCHANGED <<runtime, ens, prn, lastOk, store, profile, cache, execBuilt, fso, xvars>>

\* one round of the loop over cfg.Packages: GetURL, DownloadFile, Install
\* and Link
SwitchPackage ==
    /\ sw.pc = "packages"
    /\ \E name \in sw.pkgs, f \in {"none", "url", "download"},
          io \in InstallOutcomes("c1") : \E lo \in LinkOutcomes(<<name>>) :
          LET version  == sw.cfg.Packages[name]
              src      == CachePath(name, version)
              cached   == cache[src] # NoSource
              fetched  == IF cached \/ f = "download" THEN cache
                          ELSE [cache EXCEPT ![src] = "c1"]
              inst     == Install(store, fetched[src], name, version, io)
              link     == Link(profile, inst.path, <<name>>, lo)
              s1       == [sw EXCEPT !.order = Append(@, <<"pkg", name>>),
                                     !.pkgs = @ \ {name}]
              next     == AfterPackages(s1.pkgs, s1.ctrs)
          IN  IF f = "url" \/ (f = "download" /\ ~cached)
              THEN /\ sw' = Advance(s1, TRUE, next)
                   /\ UNCHANGED <<cache, store, profile>>
              ELSE IF ~inst.ok
              THEN /\ sw' = Advance(s1, TRUE, next)
                   /\ cache' = fetched
                   /\ store' = inst.store
                   /\ UNCHANGED profile
              ELSE /\ sw' = Advance([s1 EXCEPT !.applied =
                                        IF link.ok THEN @ \cup {<<"pkg", name>>} ELSE @],
                                    ~link.ok, next)
                   /\ cache' = fetched
                   /\ store' = inst.store
                   /\ profile' = link.profile
    /\ UNCHANGED <<runtime, config, ens, prn, lastOk, execBuilt, fso, xvars>>

\* containers.LoadContainerManifest(containerManifestPath)
SwitchManifest ==
    /\ sw.pc = "manifest"
    /\ \E ok \in BOOLEAN : sw' = Advance(sw, ~ok, "containers")
    /\ UNCHANGED <<runtime, config, ens, prn, lastOk, store, profile, cache, execBuilt, fso, xvars>>

\* one round of the loop over cfg.Containers, up to prof.Link: GetContainer,
\* the container store path with its symlinks to the executor, and Link
SwitchContainerFiles ==
    /\ sw.pc = "containers"
    /\ \E name \in sw.ctrs, found \in BOOLEAN :
       \E so \in SetupOutcomes(ManifestCommands(name)),
          lo \in LinkOutcomes(ManifestCommands(name)) :
          LET dir   == StoreDirName(name, VersionOf(sw.cfg.Containers[name]))
              setup == ContainerSetup(store, execBuilt, dir, ManifestCommands(name), so)
              link  == Link(profile, dir, ManifestCommands(name), lo)
              s1    == [sw EXCEPT !.order = Append(@, <<"ctr", name>>),
                                  !.ctrs = @ \ {name}, !.item = name]
          IN  IF ~found
              THEN /\ sw' = Advance(s1, TRUE, "version")
                   /\ UNCHANGED <<store, execBuilt, profile>>
              ELSE IF ~setup.ok
              THEN /\ sw' = Advance(s1, TRUE, "version")
                   /\ store' = setup.store
                   /\ execBuilt' = setup.exec
                   /\ UNCHANGED profile
              ELSE /\ sw' = Advance(s1, ~link.ok, "version")
                   /\ store' = setup.store
                   /\ execBuilt' = setup.exec
                   /\ profile' = link.profile
    /\ UNCHANGED <<runtime, config, ens, prn, lastOk, cache, fso, xvars>>

\* the rest of the round: ensureContainerVersion and ensureDockerImage
SwitchContainerVersion ==
    /\ sw.pc = "version"
    /\ \E vo \in VersionOutcomes, pull \in {"present", "pulled", "fail"} :
          LET r      == EnsureContainerVersion(runtime, FullName(sw.item),
                                               sw.cfg.Containers[sw.item], vo)
              failed == ~r.ok \/ ~EnsureDockerImage(pull)
              s1     == [sw EXCEPT !.swallowed = @ \/ r.swallowed,
                                   !.applied = IF failed THEN @
                                               ELSE @ \cup {<<"ctr", sw.item>>}]
          IN  /\ runtime' = r.runtime
              /\ sw' = Advance(s1, failed, AfterContainers(sw.ctrs))
    /\ UNCHANGED <<config, ens, prn, lastOk, store, profile, cache, execBuilt, fso, xvars>>

\* the process ends
SwitchReturn ==
    /\ sw.pc = "done"
    /\ sw' = SwIdle
    /\ UNCHANGED <<runtime, config, ens, prn, lastOk, store, profile, cache, execBuilt, fso, xvars>>

\* the container the operator runs and removes between two passes
SwitchNames == {FullName(<<"a">>)}

SwitchNext ==
    \/ \E custom \in BOOLEAN, file \in SwitchConfigs : SwitchCall(custom, file)
    \/ SwitchPackage
    \/ SwitchManifest
    \/ SwitchContainerFiles
    \/ SwitchContainerVersion
    \/ SwitchReturn
    \/ \E n \in SwitchNames, i \in Images : OperatorRun(n, i)
    \/ \E n \in SwitchNames : OperatorRemove(n)

----------------------------------------------------------------------------
(* ContainerDefinition.ExecuteCommand, the call of a generated wrapper     *)

\* `docker exec name command`: the command runs and exits with a code, or
\* is killed by a signal, or docker refuses because the container is not
\* running, or the docker binary cannot be started
ExecOutcomes(rt, name) ==
    IF rt[name].exists /\ rt[name].running THEN {"0", "2", "signal", "nostart"}
    ELSE {"refused", "nostart"}

\* the outcomes in which the command ran in the container
Ran == {"0", "2", "signal"}

\* the outcomes of the docker commands of the wrapper's ensureContainerRunning
DefOutcomes ==
    [running : BOOLEAN, exists : BOOLEAN, start : {"ok", "fail"},
     create : {"ok", "created", "fail"}]

\* ContainerDefinition.ensureContainerRunning(containerName, image)
DefEnsureContainerRunning(rt, name, image, out) ==
    IF IsRunning(rt, name, out.running) THEN [runtime |-> rt, ok |-> TRUE]
    ELSE IF Exists(rt, name, out.exists)
    THEN [runtime |-> Start(rt, name, out.start), ok |-> out.start = "ok"]
    ELSE [runtime |-> CreateContainer(rt, name, image, out.create),
          ok |-> out.create = "ok"]

\* ExecuteCommand(containerName, image, command, args)
ExecuteCommand(l, image, cmd) ==
    /\ Idle
    /\ \E out \in DefOutcomes :
          /\ out.start \in StartOutcomes(runtime, FullName(l))
          /\ out.create \in CreateOutcomes(runtime, FullName(l))
          /\ LET r == DefEnsureContainerRunning(runtime, FullName(l), image, out)
             IN  \E xo \in ExecOutcomes(r.runtime, FullName(l)) :
                    /\ runtime' = r.runtime
                    /\ exe' = [ExeIdle EXCEPT
                                 !.op = "ExecuteCommand", !.cmd = cmd,
                                 !.name = FullName(l), !.image = image,
                                 !.ensured = IF r.ok THEN "nil" ELSE "err",
                                 !.execIssued = r.ok,
                                 !.execImage = IF r.ok /\ xo \in Ran
                                               THEN r.runtime[FullName(l)].image
                                               ELSE NoImage,
                                 !.execCode = IF r.ok THEN xo ELSE "none",
                                 !.status = IF r.ok /\ xo = "0" THEN "nil" ELSE "err"]
    /\ lastOk' = NoCall
    /\ UNCHANGED <<config, ens, prn, store, profile, cache, execBuilt, fso, sw,
                   dl, tmp, imgs, lk>>

WrapperNext ==
    \/ \E l \in LogicalNames, i \in Images : ExecuteCommand(l, i, Head(ManifestCommands(l)))
    \/ \E n \in Names, i \in Images : OperatorRun(n, i)
    \/ \E n \in Names : OperatorStop(n)
    \/ \E n \in Names : OperatorRemove(n)

----------------------------------------------------------------------------
(* HttpRepository.DownloadFile and GithubRepository.DownloadFile           *)

Repositories == {"http", "github"}

\* a file that holds a part of the response body
Partial == "part"

\* the response body, once all of it is received
Body == "c1"

\* what DownloadFile returns when the request cannot be built or sent:
\* HttpRepository returns err, GithubRepository returns nil
RequestError(repo) == IF repo = "http" THEN "err" ELSE "nil"

\* the first step of DownloadFile that fails; only HttpRepository calls
\* MkdirAll
DownloadOutcomes(repo) ==
    {"none", "req", "transport", "status", "create"}
    \cup (IF repo = "http" THEN {"mkdir"} ELSE {})

\* a download that writes the body to the destination itself
CopyBodyInPlace(c, t, dest, complete) ==
    [cache |-> [c EXCEPT ![dest] = IF complete THEN Body ELSE Partial], tmp |-> t]

\* io.Copy(out, resp.Body) into the file at dest + ".tmp"
CopyBody(c, t, dest, complete) ==
    [cache |-> c, tmp |-> [t EXCEPT ![dest] = IF complete THEN Body ELSE Partial]]

\* DownloadFile(ctx, url, dest) up to os.Create(tempFile)
DownloadCall(repo, dest) ==
    /\ Idle
    /\ LET d0 == [DlIdle EXCEPT !.repo = repo, !.dest = dest,
                                !.preCache = cache[dest], !.preTmp = tmp[dest]]
       IN  IF cache[dest] # NoSource
           THEN /\ dl' = [d0 EXCEPT !.pc = "done", !.result = "nil"]
                /\ UNCHANGED tmp
           ELSE \E f \in DownloadOutcomes(repo) :
                   CASE f \in {"mkdir", "create"} ->
                          /\ dl' = [d0 EXCEPT !.pc = "done", !.result = "err", !.failure = f,
                                              !.requested = f = "create"]
                          /\ UNCHANGED tmp
                     [] f \in {"req", "transport"} ->
                          /\ dl' = [d0 EXCEPT !.pc = "done", !.result = RequestError(repo),
                                              !.failure = f, !.requested = f = "transport"]
                          /\ UNCHANGED tmp
                     [] f = "status" ->
                          /\ dl' = [d0 EXCEPT !.pc = "done", !.result = "err", !.failure = f,
                                              !.requested = TRUE]
                          /\ UNCHANGED tmp
                     [] OTHER ->
                          /\ dl' = [d0 EXCEPT !.pc = "copy", !.requested = TRUE]
                          /\ tmp' = [tmp EXCEPT ![dest] = Partial]
    /\ UNCHANGED <<runtime, config, ens, prn, lastOk, store, profile, cache, execBuilt,
                   fso, sw, exe, imgs, lk>>

\* io.Copy, and os.Remove(tempFile), its error ignored, when the copy fails
DownloadCopy ==
    /\ dl.pc = "copy"
    /\ \E complete \in BOOLEAN, rmOk \in BOOLEAN :
          LET r == CopyBody(cache, tmp, dl.dest, complete)
          IN  IF complete
              THEN /\ dl' = [dl EXCEPT !.pc = "rename"]
                   /\ cache' = r.cache
                   /\ tmp' = r.tmp
              ELSE /\ dl' = [dl EXCEPT !.pc = "done", !.result = "err",
                                       !.failure = IF rmOk THEN "copy" ELSE "copy-remove"]
                   /\ cache' = r.cache
                   /\ tmp' = IF rmOk THEN [r.tmp EXCEPT ![dl.dest] = NoSource] ELSE r.tmp
    /\ UNCHANGED <<runtime, config, ens, prn, lastOk, store, profile, execBuilt,
                   fso, sw, exe, imgs, lk>>

\* return os.Rename(tempFile, dest)
DownloadRename ==
    /\ dl.pc = "rename"
    /\ \E ok \in BOOLEAN :
          IF ok
          THEN /\ dl' = [dl EXCEPT !.pc = "done", !.result = "nil"]
               /\ cache' = [cache EXCEPT ![dl.dest] = tmp[dl.dest]]
               /\ tmp' = [tmp EXCEPT ![dl.dest] = NoSource]
          ELSE /\ dl' = [dl EXCEPT !.pc = "done", !.result = "err", !.failure = "rename"]
               /\ UNCHANGED <<cache, tmp>>
    /\ UNCHANGED <<runtime, config, ens, prn, lastOk, store, profile, execBuilt,
                   fso, sw, exe, imgs, lk>>

\* the caller takes the result
DownloadReturn ==
    /\ dl.pc = "done"
    /\ dl' = DlIdle
    /\ UNCHANGED <<runtime, config, ens, prn, lastOk, store, profile, cache, execBuilt,
                   fso, sw, exe, tmp, imgs, lk>>

\* the downloads, and whoever clears or fills the cache between them
DownloadNext ==
    \/ \E repo \in Repositories, dest \in PackageDirs : DownloadCall(repo, dest)
    \/ DownloadCopy
    \/ DownloadRename
    \/ DownloadReturn
    \/ \E src \in PackageDirs, c \in Contents \cup {NoSource} : WriteCache(src, c)

----------------------------------------------------------------------------
(* PruneService.PruneImages                                                *)

\* the images of the runtime: untagged layers, tagged images no container
\* uses, and images of containers
ImageKinds == {"dangling", "unused", "used"}

\* a service that always asks for the removal of all unused images
PruneFlagAll(aggressive) == TRUE

\* return p.dockerClient.PruneImages(aggressive)
PruneFlag(aggressive) == aggressive

\* DefaultDockerClient.PruneImages: `docker image prune -f`, with `-a`
\* when aggressive
ClientPruneImages(images, aggressive, ok) ==
    IF ~ok THEN images
    ELSE IF aggressive THEN images \ {"dangling", "unused"}
    ELSE images \ {"dangling"}

\* PruneService.PruneImages(aggressive)
PruneImages(aggressive) ==
    /\ Idle
    /\ \E ok \in BOOLEAN :
          /\ imgs' = ClientPruneImages(imgs, PruneFlag(aggressive), ok)
          /\ prn' = [PrnIdle EXCEPT
                       !.pc = "done", !.mode = "images", !.aggressive = aggressive,
                       !.imgCalls = << <<PruneFlag(aggressive), ok>> >>,
                       !.result = IF ok THEN "nil" ELSE "err",
                       !.pre = runtime, !.preImgs = imgs]
    /\ lastOk' = NoCall
    /\ UNCHANGED <<runtime, config, ens, store, profile, cache, execBuilt, fso, sw,
                   exe, dl, tmp, lk>>

\* images come and go with builds, pulls and the containers that use them
ImageChange(kind) ==
    /\ Idle
    /\ imgs' = IF kind \in imgs THEN imgs \ {kind} ELSE imgs \cup {kind}
    /\ UNCHANGED <<runtime, config, ens, prn, lastOk, store, profile, cache, execBuilt,
                   fso, sw, exe, dl, tmp, lk>>

ImagesNext ==
    \/ \E aggressive \in BOOLEAN : PruneImages(aggressive)
    \/ PruneReturn
    \/ \E kind \in ImageKinds : ImageChange(kind)
    \/ \E n \in Names, i \in Images : OperatorRun(n, i)
    \/ \E n \in Names : OperatorRemove(n)

----------------------------------------------------------------------------
(* container-exec: main                                                    *)

\* findContainerForCommand: the declared containers whose manifest entry
\* lists the command; the loop over the map returns the first it meets
ContainersForCommand(cmd, cfg) ==
    {l \in DOMAIN cfg.Containers :
        \E i \in DOMAIN ManifestCommands(l) : ManifestCommands(l)[i] = cmd}

\* the status the process exits with after cmd.Run(): 0 when it returns
\* nil, exitError.ExitCode() for an ExitError (-1 for a signal, which the
\* system truncates to 255), 1 for any other error
ExitStatus(xo) ==
    CASE xo = "0" -> "0"
      [] xo = "2" -> "2"
      [] xo = "refused" -> "1"
      [] xo = "signal" -> "255"
      [] OTHER -> "1"

\* the exit code of the `docker exec` process, where it has one
ExecExitCode(xo) ==
    CASE xo = "0" -> "0"
      [] xo = "2" -> "2"
      [] xo = "refused" -> "1"
      [] OTHER -> "none"

\* a main that goes on to the exec whatever Ensure returned
AfterEnsureAlways(result) == "exec"

\* if err := ensureContainerRunning(...); err != nil { os.Exit(1) }
AfterEnsure(result) == IF result = "nil" THEN "exec" ELSE "exit"

\* main up to the call of ensureContainerRunning: LoadConfig,
\* LoadContainerManifest, findContainerForCommand
ContainerExecCall(cmd) ==
    /\ Idle
    /\ \E mf \in BOOLEAN :
          LET cfg   == LoadConfig(config)
              found == IF cfg.ok /\ mf THEN ContainersForCommand(cmd, cfg) ELSE {}
          IN  IF found = {}
              THEN /\ exe' = [ExeIdle EXCEPT !.pc = "done", !.op = "container-exec",
                                             !.cmd = cmd, !.status = "1"]
                   /\ UNCHANGED <<ens, lastOk>>
              ELSE \E l \in found :
                   /\ exe' = [ExeIdle EXCEPT !.pc = "ensure", !.op = "container-exec",
                                             !.cmd = cmd, !.name = FullName(l),
                                             !.image = cfg.Containers[l]]
                   /\ ens' = [EnsIdle EXCEPT
                                !.pc = "exists", !.name = FullName(l),
                                !.image = cfg.Containers[l],
                                !.again = (lastOk = <<FullName(l), cfg.Containers[l]>>),
                                !.pre = runtime]
                   /\ lastOk' = NoCall
    /\ UNCHANGED <<runtime, config, prn, store, profile, cache, execBuilt, fso, sw,
                   dl, tmp, imgs, lk>>

\* main after ensureContainerRunning returned: exit 1 on its error, else
\* `docker exec` and the exit with its status
ContainerExecRun ==
    /\ exe.pc = "ensure"
    /\ ens.pc = "done"
    /\ IF AfterEnsure(ens.result) = "exit"
       THEN exe' = [exe EXCEPT !.pc = "done", !.ensured = ens.result, !.status = "1"]
       ELSE \E xo \in ExecOutcomes(runtime, exe.name) :
               exe' = [exe EXCEPT
                         !.pc = "done", !.ensured = ens.result,
                         !.execIssued = TRUE,
                         !.execImage = IF xo \in Ran THEN runtime[exe.name].image
                                       ELSE NoImage,
                         !.execCode = xo,
                         !.status = ExitStatus(xo)]
    /\ lastOk' = IF ens.result = "nil" THEN <<ens.name, ens.image>> ELSE NoCall
    /\ ens' = EnsIdle
    /\ UNCHANGED <<runtime, config, prn, store, profile, cache, execBuilt, fso, sw,
                   dl, tmp, imgs, lk>>

\* the process is gone
ContainerExecReturn ==
    /\ exe.pc = "done"
    /\ exe' = ExeIdle
    /\ UNCHANGED <<runtime, config, ens, prn, lastOk, store, profile, cache, execBuilt,
                   fso, sw, dl, tmp, imgs, lk>>

\* the configs container-exec is run under
ExecConfigs ==
    {NoConfig} \cup
    {[ok |-> TRUE, Packages |-> NoPackages, Containers |-> [l \in D |-> i]] :
        D \in SUBSET LogicalNames, i \in Images}

ExecNext ==
    \/ \E c \in Commands : ContainerExecCall(c)
    \/ EnsureExists
    \/ EnsureGetImage
    \/ EnsureRemove
    \/ EnsureCreate
    \/ EnsureIsRunning
    \/ EnsureStart
    \/ ContainerExecRun
    \/ ContainerExecReturn
    \/ \E n \in Names, i \in Images : OperatorRun(n, i)
    \/ \E n \in Names : OperatorStop(n)
    \/ \E n \in Names : OperatorRemove(n)
    \/ \E c \in ExecConfigs : WriteConfig(c)

----------------------------------------------------------------------------

Init ==
    /\ runtime = EmptyRuntime
    /\ config = NoConfig
    /\ ens = EnsIdle
    /\ prn = PrnIdle
    /\ lastOk = NoCall
    /\ store = EmptyStore
    /\ profile = EmptyProfile
    /\ cache = EmptyCache
    /\ execBuilt = FALSE
    /\ fso = FsoNone
    /\ sw = SwIdle
    /\ exe = ExeIdle
    /\ dl = DlIdle
    /\ tmp = EmptyCache
    /\ imgs = {}
    /\ lk = LkIdle

TypeOK ==
    /\ runtime \in [Names -> ContainerStates]
    /\ config \in ConfigFiles \cup SwitchConfigs
    /\ ens.pc \in {"idle", "exists", "image", "remove", "create", "isrunning",
                   "start", "done"}
    /\ prn.pc \in {"idle", "list", "loop", "gc", "done"}
    /\ ~(ens.pc # "idle" /\ prn.pc # "idle")

Next == Ensure \/ Prune \/ Operator

Spec == Init /\ [][Next]_vars

SpecStore == Init /\ [][StoreNext]_vars

SpecLink == Init /\ [][LinkNext]_vars

SpecSwitch == Init /\ [][SwitchNext]_vars

SpecWrapper == Init /\ [][WrapperNext]_vars

SpecExec == Init /\ [][ExecNext]_vars

SpecDownload == Init /\ [][DownloadNext]_vars

SpecImages == Init /\ [][ImagesNext]_vars

\* the store directories the collector meets: version 1 of package b, put
\* there by InstallBinary or by Install, and of the containers that were
\* set up after it
RECURSIVE SetUpAll(_, _)
SetUpAll(st, ls) ==
    IF ls = {} THEN st
    ELSE LET l == CHOOSE x \in ls : TRUE
         IN  SetUpAll(ContainerSetup(st, TRUE, StoreDirName(l, <<"1">>),
                                     ManifestCommands(l), SetupOk).store,
                      ls \ {l})

CleanupStores ==
    LET none      == EmptyStore
        binary    == InstallBinary(none, "c1", <<"b">>, <<"1">>, "ok").store
        installed == Install(none, "c1", <<"b">>, <<"1">>, "ok").store
    IN  {SetUpAll(st, ls) : st \in {none, binary, installed}, ls \in SUBSET LogicalNames}

\* the entries the collector meets under a command's name: links to the
\* files of version 1 of the store that may have this name, and some of
\* what can be put there by hand
CleanupEntries(c) ==
    IF c = <<"b">>
    THEN {NoEntry, RegularFile, Symlink(OtherTarget("missing")),
          Symlink(StoreTarget(StoreDirName(<<"b">>, <<"1">>), c)),
          Symlink(BinTarget(StoreDirName(<<"b">>, <<"1">>), c))}
    ELSE {NoEntry, Symlink(OtherTarget("exists")), Symlink(OtherTarget("loop"))}
         \cup {Symlink(StoreTarget(StoreDirName(n, <<"1">>), c)) : n \in LogicalNames}

CleanupConfigs ==
    {NoConfig} \cup
    {[ok |-> TRUE, Packages |-> NoPackages, Containers |-> [l \in D |-> "x:1"]] :
        D \in SUBSET LogicalNames}

InitCleanup ==
    /\ runtime = EmptyRuntime
    /\ ens = EnsIdle
    /\ prn = PrnIdle
    /\ lastOk = NoCall
    /\ cache = EmptyCache
    /\ fso = FsoNone
    /\ sw = SwIdle
    /\ exe = ExeIdle
    /\ dl = DlIdle
    /\ tmp = EmptyCache
    /\ imgs = {}
    /\ lk = LkIdle
    /\ config \in CleanupConfigs
    /\ store \in CleanupStores
    /\ execBuilt \in BOOLEAN
    /\ profile \in {EmptyProfile} \cup
                   {[exists |-> TRUE, entries |-> e] :
                       e \in {e \in [Commands -> ProfileEntries] :
                                 \A c \in Commands : e[c] \in CleanupEntries(c)}}

SpecCleanup == InitCleanup /\ [][CallCleanup]_vars

\* the prune commands and the collector over a store that holds package b
\* and the command links of container a, a profile with links, a regular
\* file and a directory, and a runtime with some containers
FrameStore ==
    SetUpAll(InstallBinary(EmptyStore, "c1", <<"b">>, <<"1">>, "ok").store, {<<"a">>})

FrameEntries(c) ==
    IF c = <<"b">>
    THEN {RegularFile, Symlink(OtherTarget("missing")),
          Symlink(BinTarget(StoreDirName(<<"b">>, <<"1">>), c))}
    ELSE {Directory, Symlink(StoreTarget(StoreDirName(<<"a">>, <<"1">>), c))}

InitFrame ==
    /\ ens = EnsIdle
    /\ prn = PrnIdle
    /\ lastOk = NoCall
    /\ cache = EmptyCache
    /\ fso = FsoNone
    /\ sw = SwIdle
    /\ exe = ExeIdle
    /\ dl = DlIdle
    /\ tmp = EmptyCache
    /\ imgs = {}
    /\ lk = LkIdle
    /\ execBuilt = TRUE
    /\ store = FrameStore
    /\ config \in {NoConfig,
                    [ok |-> TRUE, Packages |-> NoPackages,
                     Containers |-> [l \in {<<"a">>} |-> "x:1"]]}
    /\ runtime \in [Names -> {Absent, [exists |-> TRUE, running |-> TRUE, image |-> "x:1"]}]
    /\ profile \in {[exists |-> TRUE, entries |-> e] :
                       e \in {e \in [Commands -> ProfileEntries] :
                                 \A c \in Commands : e[c] \in FrameEntries(c)}}

FrameNext == Prune \/ CallCleanup

SpecFrame == InitFrame /\ [][FrameNext]_vars

SpecArchive == Init /\ [][ArchiveNext]_vars

\* the passes whose loops have more than one round: containers a and b,
\* which both list the command g, and package b
OrderConfigs ==
    {[ok |-> TRUE, Packages |-> p, Containers |-> [l \in D |-> "x:1"]] :
        p \in {NoPackages, [n \in {<<"b">>} |-> <<"1">>]},
        D \in {{<<"a">>}, {<<"b">>}, {<<"a">>, <<"b">>}}}

OrderNext ==
    \/ \E file \in OrderConfigs : SwitchCall(TRUE, file)
    \/ SwitchPackage
    \/ SwitchManifest
    \/ SwitchContainerFiles
    \/ SwitchContainerVersion
    \/ SwitchReturn

SpecOrder == Init /\ [][OrderNext]_vars

\* container a after its version changed: version 1 was set up from a
\* manifest that listed the commands b and g for it, the manifest now lists
\* g alone, and the profile still links both commands into store/a-1
UpgradeStore ==
    ContainerSetup(EmptyStore, TRUE, StoreDirName(<<"a">>, <<"1">>),
                   << <<"b">>, <<"g">> >>, SetupOk).store

UpgradeProfile ==
    Link(EmptyProfile, StoreDirName(<<"a">>, <<"1">>), << <<"b">>, <<"g">> >>,
         [mkdir |-> TRUE, rm |-> [c \in Commands |-> TRUE],
          sl |-> [c \in Commands |-> TRUE]]).profile

UpgradeConfigs ==
    {[ok |-> TRUE, Packages |-> NoPackages, Containers |-> [l \in {<<"a">>} |-> i]] :
        i \in Images}

InitUpgrade ==
    /\ runtime \in {EmptyRuntime,
                    [EmptyRuntime EXCEPT ![FullName(<<"a">>)] =
                        [exists |-> TRUE, running |-> TRUE, image |-> "x:1"]]}
    /\ config = [ok |-> TRUE, Packages |-> NoPackages,
                 Containers |-> [l \in {<<"a">>} |-> "x:1"]]
    /\ ens = EnsIdle
    /\ prn = PrnIdle
    /\ lastOk = NoCall
    /\ store = UpgradeStore
    /\ profile = UpgradeProfile
    /\ cache = EmptyCache
    /\ execBuilt = TRUE
    /\ fso = FsoNone
    /\ sw = SwIdle
    /\ exe = ExeIdle
    /\ dl = DlIdle
    /\ tmp = EmptyCache
    /\ imgs = {}
    /\ lk = LkIdle

\* symlinkManager.CleanupOrphanedSymlinks() once the pass is over
SweepAfterSwitch ==
    /\ sw.pc = "done"
    /\ fso.op # "Cleanup"
    /\ \E out \in CleanupOutcomes :
          LET r == CleanupOrphanedSymlinks(profile, store, config, execBuilt, out)
          IN  /\ profile' = r.profile
              /\ fso' = [Carry EXCEPT
                           !.op = "Cleanup", !.ok = r.ok, !.asked = r.asked,
                           !.refused = {c \in r.asked : ~out.rm[c]},
                           !.envFailed = ~out.readdir \/ \E c \in r.asked : ~out.rm[c],
                           !.preProfile = profile]
    /\ UNCHANGED <<runtime, config, ens, prn, lastOk, sw, store, cache, execBuilt, xvars>>

\* both processes have ended
UpgradeReturn ==
    /\ sw.pc = "done"
    /\ sw' = SwIdle
    /\ fso' = Carry
    /\ UNCHANGED <<runtime, config, ens, prn, lastOk, store, profile, cache, execBuilt, xvars>>

UpgradeNext ==
    \/ \E file \in UpgradeConfigs : SwitchCall(TRUE, file)
    \/ SwitchManifest
    \/ SwitchContainerFiles
    \/ SwitchContainerVersion
    \/ SweepAfterSwitch
    \/ UpgradeReturn

SpecUpgrade == InitUpgrade /\ [][UpgradeNext]_vars

\* a profile in which an entry is a link to the other entry: b links to g
\* or g links to b, and the other entry is a link into the store, a link
\* to a path outside it, or a regular file
ChainEntries ==
    {e \in [Commands -> ProfileEntries] :
        \E c, d \in Commands :
            /\ c # d
            /\ e[c] = Symlink(ProfileTarget(d))
            /\ e[d] \in {RegularFile, Symlink(OtherTarget("exists")),
                          Symlink(OtherTarget("missing"))}
                         \cup {Symlink(StoreTarget(StoreDirName(n, <<"1">>), d)) :
                                  n \in {<<"a">>, <<"b">>}}}

ChainConfigs ==
    {NoConfig} \cup
    {[ok |-> TRUE, Packages |-> NoPackages, Containers |-> [l \in D |-> "x:1"]] :
        D \in SUBSET {<<"a">>, <<"b">>}}

InitChain ==
    /\ runtime = EmptyRuntime
    /\ ens = EnsIdle
    /\ prn = PrnIdle
    /\ lastOk = NoCall
    /\ cache = EmptyCache
    /\ fso = FsoNone
    /\ sw = SwIdle
    /\ exe = ExeIdle
    /\ dl = DlIdle
    /\ tmp = EmptyCache
    /\ imgs = {}
    /\ lk = LkIdle
    /\ config \in ChainConfigs
    /\ store = SetUpAll(EmptyStore, {<<"a">>, <<"b">>})
    /\ execBuilt = TRUE
    /\ profile \in {[exists |-> TRUE, entries |-> e] : e \in ChainEntries}

SpecChain == InitChain /\ [][CallCleanup]_vars

\* the operator's docker commands on the container Ensure works on, at any
\* moment, also between two adapter calls of Ensure
OthersIdle ==
    /\ prn.pc = "idle" /\ sw.pc = "idle" /\ exe.pc = "idle" /\ dl.pc = "idle"

RaceRun(n, i) ==
    /\ OthersIdle
    /\ ~runtime[n].exists
    /\ Cardinality({m \in Names : runtime[m].exists}) < MaxContainers
    /\ \E out \in {"ok", "created"} : runtime' = CreateContainer(runtime, n, i, out)
    /\ lastOk' = NoCall
    /\ UNCHANGED <<config, ens, prn, fsvars>>

RaceStop(n) ==
    /\ OthersIdle
    /\ runtime[n].exists /\ runtime[n].running
    /\ runtime' = [runtime EXCEPT ![n].running = FALSE]
    /\ lastOk' = NoCall
    /\ UNCHANGED <<config, ens, prn, fsvars>>

RaceStart(n) ==
    /\ OthersIdle
    /\ runtime[n].exists /\ ~runtime[n].running
    /\ runtime' = Start(runtime, n, "ok")
    /\ lastOk' = NoCall
    /\ UNCHANGED <<config, ens, prn, fsvars>>

RaceRemove(n) ==
    /\ OthersIdle
    /\ runtime[n].exists
    /\ runtime' = Remove(runtime, n, "ok")
    /\ lastOk' = NoCall
    /\ UNCHANGED <<config, ens, prn, fsvars>>

\* the containers Ensure and the operator both work on
RaceNames == {FullName(<<"a">>), FullName(<<"b">>)}

RaceNext ==
    \/ \E n \in RaceNames, i \in Images : EnsureCall(n, i)
    \/ EnsureExists
    \/ EnsureGetImage
    \/ EnsureRemove
    \/ EnsureCreate
    \/ EnsureIsRunning
    \/ EnsureStart
    \/ EnsureReturn
    \/ \E n \in RaceNames, i \in Images : RaceRun(n, i)
    \/ \E n \in RaceNames : RaceStop(n)
    \/ \E n \in RaceNames : RaceStart(n)
    \/ \E n \in RaceNames : RaceRemove(n)

SpecRace == Init /\ [][RaceNext]_vars

\* the command both runs link, and the store path each run links it to
LinkedCommand == <<"g">>

LinkerDir(p) == StoreDirName(<<"b">>, IF p = 1 THEN <<"1">> ELSE <<"2">>)

\* Link(storePath, binaries) of run p up to the loop: os.MkdirAll(binDir)
LinkerCall(p) ==
    /\ lk[p].pc = "idle"
    /\ prn.pc = "idle" /\ sw.pc = "idle" /\ ens.pc = "idle"
    /\ \E mkdir \in BOOLEAN :
          /\ lk' = [lk EXCEPT ![p] =
                      [pc |-> IF mkdir THEN "remove" ELSE "done", dir |-> LinkerDir(p),
                       result |-> IF mkdir THEN "none" ELSE "err",
                       found |-> FALSE, envFailed |-> ~mkdir]]
          /\ profile' = IF mkdir THEN [profile EXCEPT !.exists = TRUE] ELSE profile
    /\ UNCHANGED <<runtime, config, ens, prn, lastOk, store, cache, execBuilt, fso, sw,
                   exe, dl, tmp, imgs>>

\* os.Remove(target), its error ignored
LinkerRemove(p) ==
    /\ lk[p].pc = "remove"
    /\ \E rmOk \in BOOLEAN :
          /\ profile' = [profile EXCEPT
                            !.entries = RemoveEntry(@, LinkedCommand, rmOk)]
          /\ lk' = [lk EXCEPT ![p].pc = "symlink",
                              ![p].envFailed =
                                  @ \/ (profile.entries[LinkedCommand].kind # "none" /\ ~rmOk)]
    /\ UNCHANGED <<runtime, config, ens, prn, lastOk, store, cache, execBuilt, fso, sw,
                   exe, dl, tmp, imgs>>

\* os.Symlink(source, target), and the return of Link
LinkerSymlink(p) ==
    /\ lk[p].pc = "symlink"
    /\ \E slOk \in BOOLEAN :
          LET made == SymlinkOk(profile.entries, LinkedCommand, slOk)
          IN  /\ profile' = IF made
                            THEN [profile EXCEPT !.entries[LinkedCommand] =
                                     Symlink(StoreTarget(lk[p].dir, LinkedCommand))]
                            ELSE profile
              /\ lk' = [lk EXCEPT ![p].pc = "done",
                                  ![p].result = IF made THEN "nil" ELSE "err",
                                  ![p].found = profile.entries[LinkedCommand].kind # "none",
                                  ![p].envFailed =
                                      @ \/ (profile.entries[LinkedCommand].kind = "none"
                                             /\ ~slOk)]
    /\ UNCHANGED <<runtime, config, ens, prn, lastOk, store, cache, execBuilt, fso, sw,
                   exe, dl, tmp, imgs>>

\* both runs have ended
LinkersReturn ==
    /\ \A p \in Linkers : lk[p].pc = "done"
    /\ lk' = LkIdle
    /\ UNCHANGED <<runtime, config, ens, prn, lastOk, store, profile, cache, execBuilt,
                   fso, sw, exe, dl, tmp, imgs>>

\* what is under the command's name before the two runs: nothing, a link
\* that resolves, a broken link or a regular file
LinkersEntries ==
    {NoEntry, RegularFile, Symlink(OtherTarget("exists")), Symlink(OtherTarget("missing"))}

LinkersNext ==
    \/ \E p \in Linkers : LinkerCall(p)
    \/ \E p \in Linkers : LinkerRemove(p)
    \/ \E p \in Linkers : LinkerSymlink(p)
    \/ LinkersReturn
    \/ \E e \in LinkersEntries : EditProfile(LinkedCommand, e)

SpecLinkers == Init /\ [][LinkersNext]_vars

\* the sweep of main.go over the directories of the collector and over the
\* profiles in which an entry links to the other
InitSweeps ==
    /\ runtime = EmptyRuntime
    /\ ens = EnsIdle
    /\ prn = PrnIdle
    /\ lastOk = NoCall
    /\ cache = EmptyCache
    /\ fso = FsoNone
    /\ sw = SwIdle
    /\ exe = ExeIdle
    /\ dl = DlIdle
    /\ tmp = EmptyCache
    /\ imgs = {}
    /\ lk = LkIdle
    /\ config \in CleanupConfigs
    /\ store \in CleanupStores
    /\ execBuilt \in BOOLEAN
    /\ profile \in {EmptyProfile} \cup
                   {[exists |-> TRUE, entries |-> e] :
                       e \in {e \in [Commands -> ProfileEntries] :
                                 \A c \in Commands : e[c] \in CleanupEntries(c)}
                             \cup ChainEntries}

SpecSweeps == InitSweeps /\ [][CallLegacyCleanup]_vars

----------------------------------------------------------------------------
(* Properties of ensureContainerRunning                                    *)

MutatingOps == {"Remove", "Create", "Start"}

\* the calls as issued, without their outcomes
Issued(calls) == [i \in DOMAIN calls |-> <<calls[i][1], calls[i][2], calls[i][3]>>]

Mutating(calls) == SelectSeq(Issued(calls), LAMBDA c : c[1] \in MutatingOps)

Queries(calls) == SelectSeq(Issued(calls), LAMBDA c : c[1] \notin MutatingOps)

\* no call with one of these names failed
Succeeded(calls, ops) ==
    \A i \in DOMAIN calls : calls[i][1] \in ops => calls[i][4]

EnsureDone == ens.pc = "done"

\* the named container as it was when Ensure was called
Before == ens.pre[ens.name]

Converged(c, image) == c.exists /\ c.running /\ c.image = image

\* C1: if every adapter call succeeded then, when Ensure returns, the named
\* container exists, has the desired image and is running.
C1_EnsureConverges ==
    (EnsureDone /\ ~ens.failed) => Converged(runtime[ens.name], ens.image)

\* C2 as stated: a container with another image gets exactly one Remove and
\* then exactly one Create with the desired image, and no Start.
C2_RecreateAlways ==
    (EnsureDone /\ Before.exists /\ Before.image # ens.image)
        => Mutating(ens.calls) = << <<"Remove", ens.name, NoImage>>,
                                    <<"Create", ens.name, ens.image>> >>

\* C2 amended: a container with another image gets exactly one Remove and
\* then exactly one Create with the desired image, and no Start, when the
\* existence query, the image query and the Remove succeed.
C2_RecreateOnImageChange ==
    (/\ EnsureDone
     /\ Before.exists
     /\ Before.image # ens.image
     /\ Succeeded(ens.calls, {"Exists", "GetContainerImage", "Remove"}))
        => Mutating(ens.calls) = << <<"Remove", ens.name, NoImage>>,
                                    <<"Create", ens.name, ens.image>> >>

\* a running container with image x:1 was recreated with image x:2
C2_Witness ==
    /\ EnsureDone
    /\ Before = [exists |-> TRUE, running |-> TRUE, image |-> "x:1"]
    /\ ens.image = "x:2"
    /\ ens.result = "nil"
    /\ Mutating(ens.calls) = << <<"Remove", ens.name, NoImage>>,
                                <<"Create", ens.name, "x:2">> >>
    /\ Converged(runtime[ens.name], "x:2")

\* C3: on a container that runs the desired image, and on a call that
\* directly follows a successful Ensure with the same arguments, Ensure
\* issues no Create, Remove or Start and leaves the runtime as it was.
C3_NoOpWhenConverged ==
    (EnsureDone /\ (Converged(Before, ens.image) \/ ens.again))
        => (Mutating(ens.calls) = <<>> /\ runtime = ens.pre)

\* C4: a stopped container with the desired image gets exactly one Start
\* and no Remove or Create. Stated for the calls of Ensure in which every
\* adapter call succeeds, where the claim asks least of the code.
C4_StartWhenStopped ==
    (/\ EnsureDone
     /\ Before.exists /\ ~Before.running /\ Before.image = ens.image
     /\ ~ens.failed)
        => Mutating(ens.calls) = << <<"Start", ens.name, NoImage>> >>

\* C5: when no container has exactly this name, Ensure issues one Create
\* with the desired image and no image query, Remove or Start, whatever
\* other containers exist.
C5_AbsentBranch ==
    (EnsureDone /\ ~Before.exists)
        => /\ Mutating(ens.calls) = << <<"Create", ens.name, ens.image>> >>
           /\ \A i \in DOMAIN ens.calls : ens.calls[i][1] # "GetContainerImage"

----------------------------------------------------------------------------
(* Properties of the prune service and of the `prune containers` command   *)

Range(seq) == {seq[i] : i \in DOMAIN seq}

Count(seq, x) == Cardinality({i \in DOMAIN seq : seq[i] = x})

PruneDone == prn.pc = "done"

\* the namespaced instances the runtime holds
Namespaced(rt) == {n \in Names : rt[n].exists /\ Contains(n, Prefix)}

\* C6: selective mode keeps a listed instance exactly when it is a config
\* container that is running; every other listed instance gets a Remove.
\* Stated for the runs in which every run-state query is answered.
C6_SelectiveKeepsRunningDesired ==
    (PruneDone /\ prn.mode = "selective" /\ ~prn.queryFailed)
        => \A n \in prn.listed :
              (n \notin Range(prn.removes))
                  <=> (n \in ConfigContainers(prn.cfg) /\ prn.pre[n].running)

\* C7: without --all no Remove is issued for a container of the current
\* config. Stated for the runs in which every run-state query is answered.
C7_ConfiguredNeverRemoved ==
    (PruneDone /\ ~prn.aggressive /\ ~prn.queryFailed)
        => \A n \in Range(prn.removes) : n \notin ConfigContainers(LoadConfig(config))

\* C8: with --all every listed instance gets a Remove, in the config or not,
\* running or not, and, the instances listed, if every Remove succeeded no
\* namespaced instance is left.
C8_AggressiveRemovesAll ==
    (PruneDone /\ prn.aggressive)
        => /\ \A n \in prn.listed : Count(prn.removes, n) = 1
           /\ (prn.listOk /\ prn.failed = {}) => Namespaced(runtime) = {}

\* --all removed a running container of the config and a stopped one
C8_Witness ==
    /\ PruneDone
    /\ prn.aggressive
    /\ prn.failed = {}
    /\ \E n \in prn.listed : n \in ConfigContainers(prn.cfg) /\ prn.pre[n].running
    /\ \E n \in prn.listed : ~prn.pre[n].running
    /\ Namespaced(runtime) = {}

\* C31: while the command runs without --all over a config file that cannot
\* be loaded, no listing and no Remove is issued and the runtime stays as it
\* was; a command that issued a Remove without a loaded config was given
\* --all.
C31_NoConfigNoPrune ==
    /\ (prn.pc \in {"list", "loop", "gc", "done"} /\ prn.mode # "images"
            /\ ~config.ok /\ ~prn.aggressive)
          => /\ prn.pc \in {"gc", "done"}
             /\ ~prn.listOk
             /\ prn.result = "none"
             /\ prn.removes = <<>>
             /\ runtime = prn.pre
    /\ (prn.removes # <<>> /\ ~config.ok) => prn.aggressive

\* the command returned without --all and without a config, and the
\* namespaced containers, one of them stopped, are still there
C31_Witness ==
    /\ PruneDone
    /\ prn.mode = "none"
    /\ ~config.ok
    /\ ~prn.aggressive
    /\ prn.gcCalls = 1
    /\ \E n \in Namespaced(runtime) : ~runtime[n].running

\* C9: in both modes, once the listing succeeded, every listed instance
\* that is not kept gets its Remove, also after another Remove failed, and
\* the service returns nil.
C9_FailedRemoveDoesNotStopBatch ==
    (PruneDone /\ prn.listOk)
        => /\ prn.result = "nil"
           /\ \A n \in prn.listed \ prn.kept : Count(prn.removes, n) = 1
           /\ prn.failed \subseteq Range(prn.removes)

\* the first Remove failed, another Remove followed, nil was returned
C9_Witness ==
    /\ PruneDone
    /\ Len(prn.removes) >= 2
    /\ prn.removes[1] \in prn.failed
    /\ prn.result = "nil"

\* C10: every run of the command makes exactly one symlink cleanup pass,
\* after the prune, with the containers of the config the prune loaded.
C10_CleanupAfterEveryPrune ==
    /\ prn.pc \in {"list", "loop", "gc"} => prn.gcCalls = 0
    /\ PruneDone => /\ prn.gcCalls = 1
                    /\ prn.gcCfg = IF prn.cfg.ok THEN prn.cfg.Containers
                                   ELSE NoContainers

\* the listing failed and the cleanup pass ran all the same
C10_Witness ==
    /\ PruneDone
    /\ prn.result = "err"
    /\ prn.cfg.ok
    /\ DOMAIN prn.cfg.Containers # {}
    /\ prn.gcCalls = 1

----------------------------------------------------------------------------
(* Properties of the store and of the linker                               *)

InstallDone == fso.op = "InstallBinary"

LinkDone == fso.op = "Link"

\* the binaries the last Link was called with
Named == {fso.binaries[i] : i \in DOMAIN fso.binaries}

\* the link Link makes for binary b of store path dir
LinkTo(dir, b) == Symlink(StoreTarget(dir, b))

\* C11: an Install that directly follows a successful Install with the same
\* name, version and source path returns the same store path and writes
\* nothing under it.
C11_SecondInstallDoesNothing ==
    (InstallDone /\ fso.again /\ fso.ok) => fso.writes = <<>>

\* C12: after `install` installed a binary and linked it, the profile link
\* resolves: the file storePath/name is there and is executable.
C12_InstalledLinkResolves ==
    (LinkDone /\ fso.ok /\ fso.installed = fso.dir)
        => \A b \in Named :
              /\ profile.entries[b] = LinkTo(fso.dir, b)
              /\ Stat(profile.entries[b].target, store, execBuilt) = "ok"
              /\ store[fso.dir].root[b].kind = "file"
              /\ store[fso.dir].root[b].exec

\* C13: a Link whose system calls all succeed replaces the link a command
\* has, a link into another store path included, by the link into its own
\* store path; and at any time a command has no link or the link of the
\* last Link that linked it.
C13_LastLinkWins ==
    /\ (LinkDone /\ ~fso.envFailed
            /\ \A b \in Named : fso.preProfile.entries[b].kind = "symlink")
          => (fso.ok /\ \A b \in Named : profile.entries[b] = LinkTo(fso.dir, b))
    /\ \A c \in Commands :
          fso.owner[c] # <<>>
              => profile.entries[c] \in {NoEntry, LinkTo(fso.owner[c], c)}

\* command b was linked to b-1 and then to b-2
C13_Witness ==
    /\ LinkDone
    /\ fso.ok
    /\ fso.dir = StoreDirName(<<"b">>, <<"2">>)
    /\ fso.preProfile.entries[<<"b">>] = LinkTo(StoreDirName(<<"b">>, <<"1">>), <<"b">>)
    /\ profile.entries[<<"b">>] = LinkTo(StoreDirName(<<"b">>, <<"2">>), <<"b">>)

\* C14: over nothing, a symlink (valid or broken) or a regular file, a Link
\* whose system calls all succeed returns nil; when Link returns nil, every
\* command it was called with is a symlink to storePath/command; a Link
\* repeated with the same arguments leaves the profile as it was, and fails
\* only if a system call fails.
C14_LinkHealsAndRepeats ==
    /\ (LinkDone /\ ~fso.envFailed
            /\ \A b \in Named : fso.preProfile.entries[b].kind \in {"none", "symlink", "file"})
          => fso.ok
    /\ (LinkDone /\ fso.ok)
          => \A b \in Named : profile.entries[b] = LinkTo(fso.dir, b)
    /\ (LinkDone /\ fso.again /\ fso.ok) => profile = fso.preProfile
    /\ (LinkDone /\ fso.again /\ ~fso.envFailed) => fso.ok

\* a Link over a regular file and a broken symlink, and the same Link again
C14_Witness ==
    /\ LinkDone
    /\ fso.again
    /\ fso.ok
    /\ fso.binaries = << <<"b">>, <<"g">> >>
    /\ fso.first.entries[<<"b">>] = RegularFile
    /\ fso.first.entries[<<"g">>] = Symlink(OtherTarget("missing"))
    /\ profile = fso.preProfile
    /\ \A b \in Named : profile.entries[b] = LinkTo(fso.dir, b)

----------------------------------------------------------------------------
(* Properties of the symlink collector                                     *)

CleanupDone == fso.op = "Cleanup"

\* a pass that read the directory and whose removals all succeeded
CleanPass == CleanupDone /\ fso.ok /\ ~fso.envFailed /\ fso.preProfile.exists

\* the store file a link into the store points at
Pointee(target) ==
    IF target.bin THEN store[target.dir].bin[target.file]
    ELSE store[target.dir].root[target.file]

\* a profile entry that is a link to a command link of a container store
ContainerCommandLink(e) ==
    /\ e.kind = "symlink"
    /\ e.target.root = "store"
    /\ Pointee(e.target) = ExecLink

\* the container a store directory was set up for
ContainerOf(dir) ==
    CHOOSE l \in LogicalNames : \E v \in Versions : dir = StoreDirName(l, v)

Declared == DOMAIN CleanupConfig(config)

\* C15: a pass whose system calls succeed leaves no symlink whose target does
\* not resolve, whatever the config.
C15_BrokenLinksRemoved ==
    CleanPass
        => \A c \in Commands :
              (/\ fso.preProfile.entries[c].kind = "symlink"
               /\ Stat(fso.preProfile.entries[c].target, store, execBuilt) # "ok")
                  => profile.entries[c] = NoEntry

\* C16: a pass leaves in place every resolving symlink whose target is a
\* regular file of the store, whatever the config.
C16_PackageLinksKept ==
    CleanupDone
        => \A c \in Commands :
              (/\ fso.preProfile.entries[c].kind = "symlink"
               /\ fso.preProfile.entries[c].target.root = "store"
               /\ Stat(fso.preProfile.entries[c].target, store, execBuilt) = "ok"
               /\ Pointee(fso.preProfile.entries[c].target).kind = "file")
                  => profile.entries[c] = fso.preProfile.entries[c]

C26_FailedRemoveDoesNotStopSweep ==
    (CleanupDone /\ fso.preProfile.exists /\ fso.refused # {}) =>
        /\ fso.ok
        /\ fso.asked = {c \in Commands :
                           ShouldRemoveSymlink(fso.preProfile.entries[c],
                                               CleanupConfig(config), store, execBuilt)}
        /\ \A c \in fso.asked \ fso.refused : profile.entries[c] = NoEntry
        /\ \A c \in Commands \ (fso.asked \ fso.refused) :
              profile.entries[c] = fso.preProfile.entries[c]

\* the removal of b failed, and g, which comes after it, was removed
C26_Witness ==
    /\ CleanupDone
    /\ fso.ok
    /\ fso.asked = Commands
    /\ fso.refused = {<<"b">>}
    /\ profile.entries[<<"b">>] = fso.preProfile.entries[<<"b">>]
    /\ profile.entries[<<"g">>] = NoEntry

\* C30: with a config file that does not load, a pass whose system calls
\* succeed removes every symlink that does not resolve and every resolving
\* link to a container command link, and keeps every resolving link to a
\* regular file of the store
C30_SweepWithoutConfig ==
    (CleanPass /\ ~LoadConfig(config).ok) =>
        \A c \in Commands :
            LET e == fso.preProfile.entries[c]
            IN  e.kind = "symlink" =>
                  /\ Stat(e.target, store, execBuilt) # "ok" => profile.entries[c] = NoEntry
                  /\ (Stat(e.target, store, execBuilt) = "ok" /\ ContainerCommandLink(e))
                        => profile.entries[c] = NoEntry
                  /\ (/\ Stat(e.target, store, execBuilt) = "ok"
                      /\ e.target.root = "store"
                      /\ Pointee(e.target).kind = "file")
                        => profile.entries[c] = e

\* C28: no step of the collector or of a prune command changes anything
\* under the store root, and the only change to the profile bin directory
\* is the removal of a symlink: regular files and directories stay
C28_StoreAndFilesUntouched ==
    [][/\ store' = store
       /\ execBuilt' = execBuilt
       /\ \A c \in Commands :
             /\ profile.entries[c].kind # "symlink"
                   => profile'.entries[c] = profile.entries[c]
             /\ profile'.entries[c] # profile.entries[c]
                   => profile'.entries[c] = NoEntry]_vars

\* a prune command removed a container and its sweep removed the link of
\* command g, next to the regular file b and the store as it was
C28_Witness ==
    /\ PruneDone
    /\ prn.removes # <<>>
    /\ prn.gcCalls = 1
    /\ profile.entries[<<"g">>] = NoEntry
    /\ profile.entries[<<"b">>] = RegularFile
    /\ store = FrameStore

----------------------------------------------------------------------------
(* Properties of the `switch` command                                      *)

SwitchDone == sw.pc = "done"

\* the full name of a container the pass was asked for
Desired == DOMAIN sw.cfg.Containers

\* C18: after a pass that reports success, every container the config
\* declares exists, is running, and runs the image the config names
C18_DesiredContainersRun ==
    (SwitchDone /\ sw.result = "ok" /\ ~sw.swallowed) =>
        \A l \in Desired : Converged(runtime[FullName(l)], sw.cfg.Containers[l])

\* the links of the profile to the command symlinks of container l
LinksOf(l) ==
    {c \in Commands :
        \E v \in Versions :
            /\ profile.entries[c] = Symlink(StoreTarget(StoreDirName(l, v), c))
            /\ store[StoreDirName(l, v)].root[c] = ExecLink}

\* C19: after a pass that reports success, the profile holds no link to
\* the store directory of a container the config does not declare
C19_SwitchEndsWithSweep ==
    (SwitchDone /\ sw.result = "ok") =>
        \A l \in LogicalNames \ Desired : LinksOf(l) = {}

\* the store directory of an item, and the commands it links
ItemDir(item) ==
    IF item[1] = "pkg" THEN StoreDirName(item[2], sw.cfg.Packages[item[2]])
    ELSE StoreDirName(item[2], VersionOf(sw.cfg.Containers[item[2]]))

ItemCommands(item) ==
    IF item[1] = "pkg" THEN {item[2]}
    ELSE {ManifestCommands(item[2])[i] : i \in DOMAIN ManifestCommands(item[2])}

\* the items the pass did not come to
ItemsLeft == {<<"pkg", n>> : n \in sw.pkgs} \cup {<<"ctr", l>> : l \in sw.ctrs}

\* C20: a pass in which a call returned an error reports it and stops at
\* that item; the items before it keep their store entry and their links,
\* and nothing is changed for the items after it
C20_ErrorAbortsPass ==
    SwitchDone =>
        /\ sw.swallowed => sw.result = "fatal"
        /\ sw.result = "fatal" =>
              /\ sw.failedAt = Len(sw.order)
              /\ \A i \in 1..(Len(sw.order) - 1) :
                    /\ store[ItemDir(sw.order[i])].exists
                    /\ \A c \in ItemCommands(sw.order[i]) :
                          profile.entries[c] = Symlink(StoreTarget(ItemDir(sw.order[i]), c))
              /\ \A item \in ItemsLeft :
                    /\ store[ItemDir(item)] = sw.preStore[ItemDir(item)]
                    /\ \A c \in ItemCommands(item) :
                          profile.entries[c] = sw.preProfile.entries[c]
                    /\ item[1] = "ctr" =>
                          runtime[FullName(item[2])] = sw.preRuntime[FullName(item[2])]

----------------------------------------------------------------------------
(* Properties of the command wrappers                                      *)

WrapperDone == exe.op = "ExecuteCommand"

\* C21: ExecuteCommand runs the command only in a container that runs the
\* image it was called with
C21_ExecInDesiredImage ==
    (WrapperDone /\ exe.execImage # NoImage) => exe.execImage = exe.image

ContainerExecDone == exe.op = "container-exec" /\ exe.pc = "done"

\* C24: container-exec issues the exec only after ensureContainerRunning
\* returned nil for the container of the command; with no declared
\* container for the command, a config or manifest that does not load, or
\* an error of Ensure it issues no exec and exits with status 1; when the
\* exec ran and exited, the process exits with its exit code
C24_ExecAfterEnsure ==
    ContainerExecDone =>
        /\ exe.execIssued => exe.ensured = "nil"
        /\ exe.ensured # "nil" => (~exe.execIssued /\ exe.status = "1")
        /\ (exe.execIssued /\ ExecExitCode(exe.execCode) # "none")
              => exe.status = ExecExitCode(exe.execCode)

\* the command ran after a successful Ensure and exited with code 2, and
\* so did the process
C24_Witness ==
    /\ ContainerExecDone
    /\ exe.ensured = "nil"
    /\ exe.execIssued
    /\ exe.execCode = "2"
    /\ exe.status = "2"

\* C29: when an adapter call of Ensure fails, Ensure returns an error and
\* issues no Remove, Create or Start after it
C29_FailedCallStopsEnsure ==
    EnsureDone =>
        \A i \in DOMAIN ens.calls :
            ~ens.calls[i][4] =>
                /\ ens.result = "err"
                /\ \A j \in DOMAIN ens.calls :
                      j > i => ens.calls[j][1] \notin MutatingOps

----------------------------------------------------------------------------
(* Properties of the downloads                                             *)

DownloadDone == dl.pc = "done"

\* nothing was asked of the network and no file was changed
NothingDone ==
    /\ ~dl.requested
    /\ cache[dl.dest] = dl.preCache
    /\ tmp[dl.dest] = dl.preTmp

\* the destination is not there or holds a complete download
DestComplete == \A d \in PackageDirs : cache[d] \in Contents \cup {NoSource}

C23_SuccessMeansFile ==
    (DownloadDone /\ dl.result = "nil") => cache[dl.dest] # NoSource

----------------------------------------------------------------------------
(* Properties of PruneImages                                               *)

PruneImagesDone == prn.pc = "done" /\ prn.mode = "images"

\* C25: PruneImages(aggressive) issues one adapter PruneImages call with
\* the same flag, which removes the dangling images or all unused images,
\* returns its result, and lists and removes no container
C25_PruneImagesDelegates ==
    PruneImagesDone =>
        /\ Len(prn.imgCalls) = 1
        /\ prn.imgCalls[1][1] = prn.aggressive
        /\ prn.result = (IF prn.imgCalls[1][2] THEN "nil" ELSE "err")
        /\ prn.result = "nil" =>
              imgs = prn.preImgs \ (IF prn.aggressive THEN {"dangling", "unused"}
                                    ELSE {"dangling"})
        /\ prn.result = "err" => imgs = prn.preImgs
        /\ ~prn.listOk /\ prn.listed = {} /\ prn.removes = <<>>
        /\ runtime = prn.pre

\* a prune without --all removed the dangling images and kept a tagged
\* image no container uses, next to a container that stayed
C25_Witness ==
    /\ PruneImagesDone
    /\ ~prn.aggressive
    /\ prn.result = "nil"
    /\ prn.preImgs = {"dangling", "unused"}
    /\ imgs = {"unused"}
    /\ \E n \in Names : runtime[n].exists

----------------------------------------------------------------------------
(* Properties of the archive install                                       *)

ArchiveInstallDone == fso.op = "InstallArchive"

\* the install failed because a requested binary is not in the archive
MissingBinary == ArchiveInstallDone /\ ~fso.ok /\ fso.failure = "missing"

\* every requested binary is at storePath/name and executable
HoldsBinaries(dir, binaries) ==
    \A i \in DOMAIN binaries :
        /\ store[dir].root[binaries[i]].kind = "file"
        /\ store[dir].root[binaries[i]].exec

\* C27: after an archive Install that failed because a requested binary is
\* not in the archive, the store path is not there, so the Install of the
\* same name and version that follows does not return through the fast
\* path; and every store path that is there holds every binary the
\* package asks for, each executable.
C27_PartialInstallNotActive ==
    /\ MissingBinary => ~store[fso.dir].exists
    /\ (ArchiveInstallDone /\ fso.again) => ~fso.existed
    /\ \A n \in PackageNames, v \in Versions :
          store[StoreDirName(n, v)].exists =>
              HoldsBinaries(StoreDirName(n, v), DesiredBinaries(n))

\* an archive that holds the first requested binary and not the second was
\* installed: the first binary had been moved when the install failed
C27_Witness ==
    /\ MissingBinary
    /\ fso.moved = 1
    /\ fso.tree = {<<"b">>}
    /\ ~store[fso.dir].exists

----------------------------------------------------------------------------
(* Properties of the order of a pass                                       *)

\* the containers in the order of their names
NameOrder == << <<"a">>, <<"a", "-", "b">>, <<"b">> >>

\* every system call of a Link succeeds
LinkOk(binaries) ==
    [mkdir |-> TRUE, rm |-> [b \in {binaries[i] : i \in DOMAIN binaries} |-> TRUE],
     sl |-> [b \in {binaries[i] : i \in DOMAIN binaries} |-> TRUE]]

\* the profile after the links of the containers of cfg from the i-th name
\* of NameOrder on
RECURSIVE LinkedInNameOrder(_, _, _)
LinkedInNameOrder(pr, cfg, i) ==
    IF i > Len(NameOrder) THEN pr
    ELSE IF NameOrder[i] \notin DOMAIN cfg.Containers
    THEN LinkedInNameOrder(pr, cfg, i + 1)
    ELSE LinkedInNameOrder(
             Link(pr, StoreDirName(NameOrder[i], VersionOf(cfg.Containers[NameOrder[i]])),
                  ManifestCommands(NameOrder[i]),
                  LinkOk(ManifestCommands(NameOrder[i]))).profile,
             cfg, i + 1)

\* the profile after a pass that links the package and then the containers
\* in the order of their names
RECURSIVE LinkedPackages(_, _, _)
LinkedPackages(pr, cfg, names) ==
    IF names = {} THEN pr
    ELSE LET n == CHOOSE x \in names : TRUE
         IN  LinkedPackages(Link(pr, StoreDirName(n, cfg.Packages[n]), <<n>>,
                                 LinkOk(<<n>>)).profile,
                            cfg, names \ {n})

ProfileInNameOrder(pr, cfg) ==
    LinkedInNameOrder(LinkedPackages(pr, cfg, DOMAIN cfg.Packages), cfg, 1)

\* C32: after a pass that reports success the profile is the one the pass
\* leaves when it processes the containers in the order of their names,
\* whatever order the pass took.
C32_OrderIndependent ==
    (SwitchDone /\ sw.result = "ok") =>
        profile = ProfileInNameOrder(sw.preProfile, sw.cfg)

----------------------------------------------------------------------------
(* Properties of a version change                                          *)

\* the profile entries that are links into the store directory dir
LinksInto(dir) ==
    {c \in Commands :
        /\ profile.entries[c].kind = "symlink"
        /\ profile.entries[c].target.root = "store"
        /\ profile.entries[c].target.dir = dir}

\* the pass over the config that declares a at version 2 reported success
\* and the sweep that followed it removed all it asked for
UpgradedAndSwept ==
    /\ SwitchDone
    /\ sw.result = "ok"
    /\ sw.cfg.ok
    /\ <<"a">> \in DOMAIN sw.cfg.Containers
    /\ VersionOf(sw.cfg.Containers[<<"a">>]) = <<"2">>
    /\ fso.op = "Cleanup"
    /\ fso.ok
    /\ ~fso.envFailed

\* C33: after the declared version of container a changed from 1 to 2, a
\* pass reported success and the sweep ran, no profile link points into
\* store/a-1, also not the link of a command a no longer exposes.
C33_NoLinkIntoOldVersion ==
    UpgradedAndSwept => LinksInto(StoreDirName(<<"a">>, <<"1">>)) = {}

----------------------------------------------------------------------------
(* Properties of a repeated sweep                                          *)

\* the symlinks of the profile bin directory that do not resolve
BrokenLinks ==
    {c \in Commands :
        /\ profile.entries[c].kind = "symlink"
        /\ StatEntry(profile.entries, c, store, execBuilt, Cardinality(Commands)) # "ok"}

\* every removal of the pass succeeded
SweptClean == fso.op = "Cleanup" /\ fso.ok /\ ~fso.envFailed

\* C34: after a pass in which every removal succeeded no symlink of the
\* profile bin directory is broken, and a pass that follows such a pass
\* asks for no removal and leaves the directory as it is.
C34_OnePassIsEnough ==
    /\ SweptClean => BrokenLinks = {}
    /\ (SweptClean /\ fso.again) => (fso.asked = {} /\ profile = fso.preProfile)

----------------------------------------------------------------------------
(* Properties of Ensure under a racing operator                            *)

\* the calls of one kind Ensure issued so far
CallsOf(op) == {i \in DOMAIN ens.calls : ens.calls[i][1] = op}

\* C35: whatever the operator does to the container between the adapter
\* calls, one Ensure issues at most one Remove, at most one Create and at
\* most one Start, never a Start and a Create, and a Remove only after it
\* read an image that is not the desired one.
C35_BoundedMutations ==
    /\ Cardinality(CallsOf("Remove")) <= 1
    /\ Cardinality(CallsOf("Create")) <= 1
    /\ Cardinality(CallsOf("Start")) <= 1
    /\ CallsOf("Start") = {} \/ CallsOf("Create") = {}
    /\ CallsOf("Remove") # {} => (ens.cur # NoImage /\ ens.cur # ens.image)

\* the container was not there when Ensure was called, the operator ran it
\* on another image before Ensure asked whether it exists, and the Remove
\* Ensure issued after reading that image failed
C35_Witness ==
    /\ EnsureDone
    /\ ~ens.pre[ens.name].exists
    /\ CallsOf("Remove") # {}
    /\ \E i \in CallsOf("Remove") : ~ens.calls[i][4]
    /\ ens.cur # ens.image

----------------------------------------------------------------------------
(* Properties of two runs that link the same command                       *)

BothReturned == \A p \in Linkers : lk[p].pc = "done"

\* no system call of either run was refused by the system for a reason of
\* its own
NoRefusal == \A p \in Linkers : ~lk[p].envFailed

\* C36: when both calls have returned, the command's name holds the link of
\* one of the two calls, whatever the order of their remove and symlink
\* steps; and a call whose symlink step found the name taken returned an
\* error and left the entry as it was. Stated for runs in which the system
\* refuses no call for a reason of its own.
C36_OneLinkSurvives ==
    /\ (BothReturned /\ NoRefusal) =>
          profile.entries[LinkedCommand] \in
              {Symlink(StoreTarget(LinkerDir(p), LinkedCommand)) : p \in Linkers}
    /\ \A p \in Linkers :
          (lk[p].pc = "done" /\ lk[p].found) => lk[p].result = "err"

\* run 2 removed and linked between the remove and the symlink of run 1:
\* run 1 found the name taken and returned an error, the link of run 2 is
\* the one that is there
C36_Witness ==
    /\ BothReturned
    /\ NoRefusal
    /\ lk[1].found
    /\ lk[1].result = "err"
    /\ lk[2].result = "nil"
    /\ profile.entries[LinkedCommand] = Symlink(StoreTarget(LinkerDir(2), LinkedCommand))

----------------------------------------------------------------------------
(* Properties of the container a command is run in                         *)

\* the first of the containers `found` in the order of their names
FirstByName(found) ==
    NameOrder[CHOOSE i \in DOMAIN NameOrder :
                 /\ NameOrder[i] \in found
                 /\ \A j \in 1..(i - 1) : NameOrder[j] \notin found]

\* C37: the container container-exec selects for a command is a function
\* of the config, the manifest and the command name: every run selects the
\* same one, here the first by name of the declared containers that list
\* the command.
C37_SameContainerEveryRun ==
    (exe.op = "container-exec" /\ exe.name # <<>>) =>
        exe.name = FullName(FirstByName(ContainersForCommand(exe.cmd, LoadConfig(config))))

----------------------------------------------------------------------------
(* Properties of the two sweeps                                            *)

\* C38: on every profile directory, store and config, and for every outcome
\* of the system calls, the sweep written with a goto and the sweep written
\* with a predicate ask for the same removals, leave the same directory
\* and return the same.
C38_SweepsAgree ==
    \A out \in CleanupOutcomes :
        LegacyCleanup(profile, store, config, execBuilt, out)
            = CleanupOrphanedSymlinks(profile, store, config, execBuilt, out)

\* the sweep with the goto ran over a directory with the link of an active
\* container, which it kept, and a link it removed
C38_Witness ==
    /\ fso.op = "LegacyCleanup"
    /\ fso.ok
    /\ fso.asked # {}
    /\ profile # fso.preProfile
    /\ \E c \in Commands :
          /\ profile.entries[c].kind = "symlink"
          /\ profile.entries[c].target.root = "store"
          /\ IsContainerLink(profile.entries[c].target, store)
          /\ LegacyActive(profile.entries[c].target.dir, CleanupConfig(config))

====
